---- MODULE Spec2Model ----
(***************************************************************************)
(* The email cleaning pipeline of backend/clean.py (start_clean), with the *)
(* Classification Engine of services/llm_service.py and the Labeling       *)
(* Engine of services/gmail_label_service.py.                              *)
(*                                                                         *)
(* Persistence: EmailRun and EmailItem rows carry the attributes that      *)
(* start_clean reads and writes (requested_count, attempt_count,           *)
(* last_error among them).  One request is executed at a time; every       *)
(* db.commit() of the handler is the end of one action.                    *)
(***************************************************************************)
EXTENDS Integers, Sequences, FiniteSets, TLC

(* ------------------------------ bounds -------------------------------- *)
\* remote message ids are 1..MaxMsg; a request asks for at most MaxMsg
MaxMsg == 2
\* number of accepted clean invocations in one behaviour
MaxRuns == 2
\* largest input of the classify_emails_batch call followed step by step
MaxClassify == 21
\* largest input of the apply_labels_batch call followed on its own
\* the longest sequence of create_label_if_not_exists calls followed
MaxEnsure == 3
MaxLabel == 3

(* ------------------------- program constants -------------------------- *)
MinCount == 1
MaxCount == 100
MaxAttempts == 2
batch_size == 20
max_workers == 10
max_retries == 3
retry_delay == 20
label_batch_size == 1000

NoneVal == "<None>"
\* a Float column holding None (confidences are kept in hundredths)
NoConfidence == -1

CATEGORIES ==
  {"IMPORTANT_ACTION", "FYI_READ_LATER", "MARKETING", "AUTOMATED",
   "LOW_VALUE_NOISE", "UNKNOWN"}

EmailRunStatus == {"NEW", "PROCESSING", "COMPLETED", "FAILED"}
EmailItemStatus == {"NEW", "PROCESSING", "SUCCESS", "FAILED"}

(* ------------------------------ helpers ------------------------------- *)
Range(s) == {s[i] : i \in DOMAIN s}

RECURSIVE Flatten(_)
Flatten(ss) == IF ss = <<>> THEN <<>> ELSE Head(ss) \o Flatten(Tail(ss))

\* the increasing enumeration of a finite set of integers
RECURSIVE SortedSeq(_)
SortedSeq(S) ==
  IF S = {} THEN <<>>
  ELSE LET m == CHOOSE x \in S : \A y \in S : x <= y
       IN <<m>> \o SortedSeq(S \ {m})

\* Python truthiness of an optional string: None and "" are falsy
Truthy(s) == s # NoneVal /\ s # ""
\* Python's  a or b  on optional strings
Or(a, b) == IF Truthy(a) THEN a ELSE b
\* a remote message id is a positive number; 0 stands for the empty id ''
HasId(id) == id # 0

(* ======================= Classification Engine ======================== *)
(* A raw email is a record [id |-> m]; the subject, sender and snippet are *)
(* only copied into the prompt.  One attempt of the oracle call ends in    *)
(*   [kind |-> "rate_limit"]  an exception whose text names 429/rate limit *)
(*   [kind |-> "error"]       any other exception (missing API key too)    *)
(*   [kind |-> "content"]     a response; shape says how its text parses:  *)
(*      "array"    json.loads gives a list                                 *)
(*      "fenced"   a list inside ```json ... ``` fences                    *)
(*      "wrapped"  prose around a list, found by the \[.*\] search         *)
(*      "object"   valid JSON that is not a list                           *)
(*      "garbage"  no JSON list can be extracted                           *)
(* An element of the list is [isdict, keys, category, hashable,            *)
(* confidence, reason]; keys are the fields present in the dict.           *)
(* ====================================================================== *)

Outcome(id, cat, conf, reason) ==
  [email_id |-> id, category |-> cat, confidence |-> conf, reason |-> reason]

\* llm_service.py 166-197: the retry loop over the attempts' outcomes
RECURSIVE AttemptLoop(_, _, _)
AttemptLoop(outs, attempt, slept) ==
  LET o == outs[attempt + 1]
  IN IF o.kind = "content"
     THEN [raised |-> FALSE, msg |-> "", out |-> o,
           calls |-> attempt + 1, slept |-> slept]
     ELSE IF o.kind = "rate_limit" /\ attempt < max_retries - 1
     THEN AttemptLoop(outs, attempt + 1,
                      Append(slept, retry_delay * (attempt + 1)))
     ELSE [raised |-> TRUE, msg |-> o.msg, out |-> o,
           calls |-> attempt + 1, slept |-> slept]

\* llm_service.py 199-233: strip fences, json.loads, recovery, list check
ParseContent(o) ==
  CASE o.shape \in {"array", "fenced", "wrapped"} ->
         [raised |-> FALSE, msg |-> "", list |-> o.records]
    [] o.shape = "object" ->
         [raised |-> TRUE, msg |-> "Expected JSON array", list |-> <<>>]
    [] OTHER ->
         [raised |-> TRUE, msg |-> "Could not parse JSON response",
          list |-> <<>>]

\* llm_service.py 244-268: one returned record, coerced
ValidateClassification(c, id) ==
  LET d == IF c.isdict THEN c
           ELSE [isdict |-> TRUE, keys |-> {"category", "confidence", "reason"},
                 category |-> "UNKNOWN", hashable |-> TRUE, confidence |-> 0,
                 reason |-> "Invalid classification format from LLM"]
      cat == IF "category" \in d.keys THEN d.category ELSE "UNKNOWN"
      conf == IF "confidence" \in d.keys THEN d.confidence ELSE 0
      why == IF "reason" \in d.keys THEN d.reason
             ELSE "No reason provided by LLM"
  IN IF cat \in CATEGORIES THEN Outcome(id, cat, conf, why)
     ELSE Outcome(id, "UNKNOWN", 0, why)

\* the membership test  classification['category'] not in CATEGORIES  raises
\* TypeError for an unhashable category (a JSON list or object)
RaisesTypeError(c) == c.isdict /\ "category" \in c.keys /\ ~c.hashable

\* variant: a failed sub-batch is reported with the fallback category
ErrorResults_Unknown(batch, msg) ==
  [j \in 1..Len(batch) |->
     Outcome(batch[j].id, "UNKNOWN", 0, "Classification error: " \o msg)]

\* llm_service.py 291-297
ErrorResults(batch, msg) ==
  [j \in 1..Len(batch) |->
     Outcome(batch[j].id, "ERROR", 0, "Classification error: " \o msg)]

\* variant: the padding of lines 271-283 is left out
BuildResults_NoPadding(batch, list) ==
  LET expected_count == Len(batch)
      used == IF Len(list) < expected_count THEN Len(list) ELSE expected_count
  IN IF \E j \in 1..used : RaisesTypeError(list[j])
     THEN ErrorResults(batch, "unhashable type")
     ELSE [j \in 1..used |-> ValidateClassification(list[j], batch[j].id)]

\* llm_service.py 236-286: one result per email of the batch, padded
BuildResults(batch, list) ==
  LET expected_count == Len(batch)
      used == IF Len(list) < expected_count THEN Len(list) ELSE expected_count
  IN IF \E j \in 1..used : RaisesTypeError(list[j])
     THEN ErrorResults(batch, "unhashable type")
     ELSE [j \in 1..expected_count |->
             IF j <= used THEN ValidateClassification(list[j], batch[j].id)
             ELSE Outcome(batch[j].id, "UNKNOWN", 0,
                          "LLM did not return classification for this email")]

\* llm_service.py 145-297, given the outcome of the retry loop
ResultsOfCall(batch, r) ==
  IF r.raised THEN ErrorResults(batch, r.msg)
  ELSE LET p == ParseContent(r.out)
       IN IF p.raised THEN ErrorResults(batch, p.msg)
          ELSE BuildResults(batch, p.list)

\* llm_service.py 145-297
classify_single_batch(batch, outs) ==
  ResultsOfCall(batch, AttemptLoop(outs, 0, <<>>))

\* variant: a slice runs one email into the next slice
Batches_Overlapping(emails) ==
  LET n == (Len(emails) + batch_size - 1) \div batch_size
  IN [b \in 1..n |->
        SubSeq(emails, (b - 1) * batch_size + 1,
               IF b * batch_size + 1 < Len(emails) THEN b * batch_size + 1
               ELSE Len(emails))]

\* llm_service.py 320-323: consecutive slices of batch_size emails
Batches(emails) ==
  LET n == (Len(emails) + batch_size - 1) \div batch_size
  IN [b \in 1..n |->
        SubSeq(emails, (b - 1) * batch_size + 1,
               IF b * batch_size < Len(emails) THEN b * batch_size
               ELSE Len(emails))]

\* llm_service.py 300-392: outs[b] is what the oracle does for sub-batch b,
\* order is the order in which the workers' futures complete
classify_emails_batch(emails, outs, order) ==
  IF emails = <<>> THEN <<>>
  ELSE LET batches == Batches(emails)
       IN Flatten([k \in 1..Len(batches) |->
                     classify_single_batch(batches[order[k]], outs[order[k]])])

\* variant: line 416 stores 1 instead of adding 1
format_classifications_for_display_NoCount(classifications) ==
  [classifications |-> classifications,
   summary |-> [cat \in CATEGORIES \cup {"ERROR"}
                      \cup {classifications[i].category :
                              i \in DOMAIN classifications} |->
                  IF \E i \in DOMAIN classifications :
                       classifications[i].category = cat
                  THEN 1 ELSE 0],
   total |-> Len(classifications)]

\* llm_service.py 406-422
format_classifications_for_display(classifications) ==
  [classifications |-> classifications,
   summary |-> [cat \in CATEGORIES \cup {"ERROR"}
                      \cup {classifications[i].category :
                              i \in DOMAIN classifications} |->
                  Cardinality({i \in DOMAIN classifications :
                                 classifications[i].category = cat})],
   total |-> Len(classifications)]

(* ========================== Labeling Engine =========================== *)
(* The provider's behaviour during one apply_labels_batch call:            *)
(*   service   whether get_gmail_service returns a service                 *)
(*   missing   the label names create_label_if_not_exists cannot resolve   *)
(*   failing   the <<label name, chunk start>> pairs whose batchModify     *)
(*             call raises                                                 *)
(* ====================================================================== *)

\* variant: the category is the label name whatever it is
get_label_name_Identity(category) == category

\* gmail_label_service.py 12-19
get_label_name(category) ==
  IF category \in CATEGORIES THEN category ELSE "UNKNOWN"

\* the keys of emails_by_label in insertion order (202-215)
RECURSIVE LabelOrder(_, _)
LabelOrder(classifications, seen) ==
  IF classifications = <<>> THEN <<>>
  ELSE LET c == Head(classifications)
           l == get_label_name(c.category)
       IN IF ~HasId(c.email_id) \/ l \in seen
          THEN LabelOrder(Tail(classifications), seen)
          ELSE <<l>> \o LabelOrder(Tail(classifications), seen \cup {l})

\* emails_by_label[label_name] (202-215)
RECURSIVE EmailIdsOf(_, _)
EmailIdsOf(classifications, label_name) ==
  IF classifications = <<>> THEN <<>>
  ELSE LET c == Head(classifications)
           rest == EmailIdsOf(Tail(classifications), label_name)
       IN IF HasId(c.email_id) /\ get_label_name(c.category) = label_name
          THEN <<c.email_id>> \o rest ELSE rest

(* The provider's labels are records [name, id, colored]; ids are positive  *)
(* numbers the provider assigns, 0 stands for None.  What the provider does *)
(* during one create_label_if_not_exists call is a record                   *)
(*   [list, patch, create, create2]  with  "ok" or "raises" each, and       *)
(*   create = "color" for an error whose text names the color payload.      *)

\* the id the provider gives to the next label it creates
NewLabelId(prov) ==
  1 + (IF prov = {} THEN 0
       ELSE CHOOSE m \in {l.id : l \in prov} : \A l \in prov : l.id <= m)

Resolved(id, prov, calls) == [id |-> id, prov |-> prov, calls |-> calls]

\* variant: the lookup of lines 69-70 never matches
create_label_if_not_exists_NoLookup(prov, label_name, f) ==
  IF f.list = "raises" THEN Resolved(0, prov, <<"list">>)
  ELSE IF f.create = "ok"
  THEN Resolved(NewLabelId(prov),
                prov \cup {[name |-> label_name, id |-> NewLabelId(prov),
                            colored |-> TRUE]},
                <<"list", "create">>)
  ELSE Resolved(0, prov, <<"list", "create">>)

\* gmail_label_service.py 61-145: the label id or None (0), the provider's
\* labels afterwards and the remote calls issued
create_label_if_not_exists(prov, label_name, f) ==
  IF f.list = "raises" THEN Resolved(0, prov, <<"list">>)
  ELSE IF \E l \in prov : l.name = label_name
  THEN LET label == CHOOSE l \in prov : l.name = label_name
       IN IF label.colored THEN Resolved(label.id, prov, <<"list">>)
          ELSE IF f.patch = "ok"
          THEN Resolved(label.id,
                        (prov \ {label})
                          \cup {[label EXCEPT !.colored = TRUE]},
                        <<"list", "patch">>)
          ELSE Resolved(label.id, prov, <<"list", "patch">>)
  ELSE IF f.create = "ok"
  THEN Resolved(NewLabelId(prov),
                prov \cup {[name |-> label_name, id |-> NewLabelId(prov),
                            colored |-> TRUE]},
                <<"list", "create">>)
  ELSE IF f.create = "color"
  THEN IF f.create2 = "ok"
       THEN Resolved(NewLabelId(prov),
                     prov \cup {[name |-> label_name,
                                 id |-> NewLabelId(prov),
                                 colored |-> FALSE]},
                     <<"list", "create", "create">>)
       ELSE Resolved(0, prov, <<"list", "create", "create">>)
  ELSE Resolved(0, prov, <<"list", "create">>)

LabelResult(id, label, ok, err) ==
  [email_id |-> id, label |-> label, success |-> ok, error |-> err]

\* variant: a thrown batchModify fails the items of every chunk
RECURSIVE ChunkResults_AnyThrown(_, _, _, _)
ChunkResults_AnyThrown(label_name, email_ids, i, env) ==
  IF i >= Len(email_ids) THEN <<>>
  ELSE LET last == IF i + label_batch_size < Len(email_ids)
                   THEN i + label_batch_size ELSE Len(email_ids)
           batch_ids == SubSeq(email_ids, i + 1, last)
           thrown == env.failing # {}
       IN [j \in 1..Len(batch_ids) |->
             LabelResult(batch_ids[j], label_name, ~thrown,
                         IF thrown THEN env.error ELSE NoneVal)]
          \o ChunkResults_AnyThrown(label_name, email_ids,
                                    i + label_batch_size, env)

\* gmail_label_service.py 244-280: the chunks of one label, from offset i
RECURSIVE ChunkResults(_, _, _, _)
ChunkResults(label_name, email_ids, i, env) ==
  IF i >= Len(email_ids) THEN <<>>
  ELSE LET last == IF i + label_batch_size < Len(email_ids)
                   THEN i + label_batch_size ELSE Len(email_ids)
           batch_ids == SubSeq(email_ids, i + 1, last)
           thrown == <<label_name, i>> \in env.failing
       IN [j \in 1..Len(batch_ids) |->
             LabelResult(batch_ids[j], label_name, ~thrown,
                         IF thrown THEN env.error ELSE NoneVal)]
          \o ChunkResults(label_name, email_ids, i + label_batch_size, env)

\* variant: the items of an unresolved label get no result
ResultsOfLabel_SkipMissing(label_name, email_ids, env) ==
  IF label_name \in env.missing THEN <<>>
  ELSE ChunkResults(label_name, email_ids, 0, env)

\* gmail_label_service.py 228-280: one label
ResultsOfLabel(label_name, email_ids, env) ==
  IF label_name \in env.missing
  THEN [j \in 1..Len(email_ids) |->
          LabelResult(email_ids[j], label_name, FALSE,
                      "Label ID not found for " \o label_name)]
  ELSE ChunkResults(label_name, email_ids, 0, env)

\* variant: line 271 counts one failure per failed chunk
RECURSIVE ChunkCounts_PerChunk(_, _, _, _)
ChunkCounts_PerChunk(label_name, email_ids, i, env) ==
  IF i >= Len(email_ids) THEN [success |-> 0, failed |-> 0]
  ELSE LET last == IF i + label_batch_size < Len(email_ids)
                   THEN i + label_batch_size ELSE Len(email_ids)
           n == last - i
           thrown == <<label_name, i>> \in env.failing
           rest == ChunkCounts_PerChunk(label_name, email_ids,
                                        i + label_batch_size, env)
       IN [success |-> rest.success + (IF thrown THEN 0 ELSE n),
           failed |-> rest.failed + (IF thrown THEN 1 ELSE 0)]

\* gmail_label_service.py 244-280: what the chunks of one label, from
\* offset i, add to success_count (259) and failed_count (271)
RECURSIVE ChunkCounts(_, _, _, _)
ChunkCounts(label_name, email_ids, i, env) ==
  IF i >= Len(email_ids) THEN [success |-> 0, failed |-> 0]
  ELSE LET last == IF i + label_batch_size < Len(email_ids)
                   THEN i + label_batch_size ELSE Len(email_ids)
           n == last - i
           thrown == <<label_name, i>> \in env.failing
           rest == ChunkCounts(label_name, email_ids, i + label_batch_size,
                               env)
       IN [success |-> rest.success + (IF thrown THEN 0 ELSE n),
           failed |-> rest.failed + (IF thrown THEN n ELSE 0)]

\* gmail_label_service.py 228-280: the counters after the labels of order
RECURSIVE LabelCounts(_, _, _)
LabelCounts(order, classifications, env) ==
  IF order = <<>> THEN [success |-> 0, failed |-> 0]
  ELSE LET label_name == Head(order)
           email_ids == EmailIdsOf(classifications, label_name)
           own == IF label_name \in env.missing
                  THEN [success |-> 0, failed |-> Len(email_ids)]
                  ELSE ChunkCounts(label_name, email_ids, 0, env)
           rest == LabelCounts(Tail(order), classifications, env)
       IN [success |-> own.success + rest.success,
           failed |-> own.failed + rest.failed]

\* gmail_label_service.py 172-294
apply_labels_batch(classifications, env) ==
  IF ~env.service
  THEN [raised |-> TRUE, msg |-> "Failed to get Gmail service for labeling",
        success_count |-> 0, failed_count |-> 0, results |-> <<>>,
        total |-> 0, error |-> NoneVal]
  ELSE LET order == LabelOrder(classifications, {})
           results == Flatten([k \in 1..Len(order) |->
                        ResultsOfLabel(order[k],
                                       EmailIdsOf(classifications, order[k]),
                                       env)])
           counts == LabelCounts(order, classifications, env)
       IN [raised |-> FALSE, msg |-> "",
           success_count |-> counts.success,
           failed_count |-> counts.failed,
           results |-> results, total |-> Len(results), error |-> NoneVal]

RemoteCall(op, label_name) == [op |-> op, label |-> label_name]

\* gmail_label_service.py 148-169: the categories are visited in the order
\* the set yields them; faults[c] is what the provider does for category c
RECURSIVE ensure_labels_exist(_, _, _)
ensure_labels_exist(prov, order, faults) ==
  IF order = <<>>
  THEN [label_map |-> <<>>, prov |-> prov, calls |-> <<>>]
  ELSE LET category == Head(order)
           label_name == get_label_name(category)
           r == create_label_if_not_exists(prov, label_name, faults[category])
           rest == ensure_labels_exist(r.prov, Tail(order), faults)
       IN [label_map |-> IF r.id # 0
                         THEN (category :> r.id) @@ rest.label_map
                         ELSE rest.label_map,
           prov |-> rest.prov,
           calls |-> [k \in 1..Len(r.calls) |->
                        RemoteCall(r.calls[k], label_name)]
                     \o rest.calls]

\* gmail_label_service.py 244-256: the batchModify calls for one label
RECURSIVE ModifyCalls(_, _, _)
ModifyCalls(label_name, email_ids, i) ==
  IF i >= Len(email_ids) THEN <<>>
  ELSE <<[op |-> "batchModify", label |-> label_name, chunk |-> i]>>
       \o ModifyCalls(label_name, email_ids, i + label_batch_size)

\* variant: each label is resolved when its group is reached
RECURSIVE RemoteCalls_Lazy(_, _, _)
RemoteCalls_Lazy(classifications, env, ensure_order) ==
  IF ~env.service \/ ensure_order = <<>> THEN <<>>
  ELSE LET l == Head(ensure_order)
       IN ensure_labels_exist(env.prov, <<l>>, env.faults).calls
          \o (IF l \in env.missing THEN <<>>
              ELSE ModifyCalls(l, EmailIdsOf(classifications, l), 0))
          \o RemoteCalls_Lazy(classifications, env, Tail(ensure_order))

\* gmail_label_service.py 217-280: the remote calls of one
\* apply_labels_batch call, in the order they are issued
RemoteCalls(classifications, env, ensure_order) ==
  IF ~env.service THEN <<>>
  ELSE LET order == LabelOrder(classifications, {})
       IN ensure_labels_exist(env.prov, ensure_order, env.faults).calls
          \o Flatten([k \in 1..Len(order) |->
                        IF order[k] \in env.missing THEN <<>>
                        ELSE ModifyCalls(order[k],
                                         EmailIdsOf(classifications,
                                                    order[k]), 0)])

(* ===================== Persistence and environment ==================== *)
\* the users table (rows are written by the OAuth flow)
UserEmails == {"ann@example.com", "bob@example.com"}
UserIdOf(email) == IF email = "ann@example.com" THEN 1 ELSE 2
\* request bodies: registered, unregistered and malformed (no '@') addresses
UnknownEmail == "nobody@example.com"
MalformedEmail == "not-an-address"
RequestEmails == UserEmails \cup {UnknownEmail, MalformedEmail}
\* MaxMsg is the valid count the requests use
RequestCounts == {MaxMsg, MinCount - 1, MaxCount + 1}

MsgIds == 1..MaxMsg

\* clean.py 25-35: the validators of CleanRequest
validate_count(v) == ~(v < MinCount \/ v > MaxCount)
validate_email(v) == v # "" /\ v # MalformedEmail

EmailRun(user_id, requested_count) ==
  [user_id |-> user_id, requested_count |-> requested_count, status |-> "NEW",
   finished |-> FALSE, error |-> NoneVal]

EmailItem(user_id, run, gmail_id) ==
  [user_id |-> user_id, run_id |-> run, gmail_message_id |-> gmail_id,
   status |-> "NEW", category |-> NoneVal, confidence |-> NoConfidence,
   reason |-> NoneVal, attempt_count |-> 0, last_error |-> NoneVal]

\* what the commit raises when the constraint is violated
IntegrityError == "IntegrityError: UNIQUE constraint failed"

\* database.py 92-94: UniqueConstraint("user_id", "gmail_message_id")
UniqueConstraint(rows) ==
  \A i, j \in DOMAIN rows :
    (rows[i].user_id = rows[j].user_id
       /\ rows[i].gmail_message_id = rows[j].gmail_message_id) => i = j

\* the messages a user's mailbox can hold: ann's are 1..MaxMsg, bob's is the
\* one message 1 (the same remote id as ann's first message)
Mailbox(uid) == IF uid = 1 THEN MsgIds ELSE {1}

\* what fetch_emails can return for a request of `count` messages: a part
\* of the mailbox, which lists each message once and in a fixed order
\* (gmail_service.py 51-59, 223-279)
FetchResults(uid, count) ==
  {[k \in 1..Cardinality(S) |-> [id |-> SortedSeq(S)[k]]] :
     S \in {T \in SUBSET Mailbox(uid) : Cardinality(T) <= count}}

FetchErrors == {"Failed to get Gmail service"}

\* list elements the oracle returns in the pipeline runs
Rec(cat, conf) ==
  [isdict |-> TRUE, keys |-> {"category", "confidence", "reason"},
   category |-> cat, hashable |-> TRUE, confidence |-> conf,
   reason |-> "because"]
PipelineRecords == {Rec("MARKETING", 90), Rec("SPAM", 80)}
Content(shape, records) ==
  [kind |-> "content", msg |-> "", shape |-> shape, records |-> records]
Raise(kind, msg) ==
  [kind |-> kind, msg |-> msg, shape |-> "", records |-> <<>>]
RateLimit == Raise("rate_limit", "Error code: 429 rate limit reached")
OracleError == Raise("error", "Connection error.")

\* the oracle's behaviour for one sub-batch of n emails during a clean call
PipelineOracle(n) ==
  {<<OracleError>>}
    \cup {<<Content("array", l)>> :
            l \in [1..n -> PipelineRecords]}

ModifyError == "HttpError 500 when requesting batchModify"
\* the provider's behaviour during one labeling call for these outcomes
LabelEnvs(classifications) ==
  LET labels == Range(LabelOrder(classifications, {}))
  IN {[service |-> FALSE, missing |-> {}, failing |-> {},
       error |-> ModifyError]}
     \cup {[service |-> TRUE, missing |-> {}, failing |-> {<<l, 0>> : l \in f},
            error |-> ModifyError] : f \in SUBSET labels}

(* ============================ start_clean ============================= *)
VARIABLES
  runs,                    \* the email_runs table; a run's id is its index
  items,                   \* the email_items table; an item's id is its index
  pc,                      \* where the handler is
  request,                 \* the CleanRequest of the run being handled
  run_id,                  \* run.id of the request (0: no run created)
  emails,                  \* the fetched emails
  emails_to_process,       \* the fetched emails that were new
  items_to_process,        \* the ids of the items created for them
  classifications,         \* first-pass classify_emails_batch result
  labeling_error_message,  \* text of the exception of the first labeling call
  retry_items,             \* the ids of the items of the retry pass
  retry_classifications,   \* classify_emails_batch result of the retry pass
  exc,                     \* the exception caught at line 356
  response,                \* what the last request returned
  ncalls,                  \* requests that created a run
  engine_calls,            \* history: the engine calls of the current request
  items_at_start,          \* history: the items table when the request began
  cl_emails,               \* classify_emails_batch: the emails argument
  cl_pc,                   \* "off", "running" or "returned"
  cl_state,                \* per sub-batch: queued, running, finished, collected
  cl_attempt,              \* per sub-batch: oracle calls made so far
  cl_waits,                \* per sub-batch: the time.sleep durations so far
  cl_results,              \* per sub-batch: what classify_single_batch returned
  cl_final,                \* history: the oracle outcome that ended the loop
  cl_outcomes,             \* history: per sub-batch, how each oracle call ended
  client,                  \* the module global _client: None or who created it
  cl_client,               \* per sub-batch worker: "none", "creating", "have"
  client_writers,          \* history: the workers that assigned _client
  all_classifications,     \* the list classify_emails_batch builds and returns
  lb_pc,                   \* apply_labels_batch call: "off", "called", "done"
  lb_classifications,      \* its classifications argument
  lb_env,                  \* the provider's behaviour during the call
  lb_result,               \* what the call returned or raised
  lb_calls,                \* the remote calls it issued, in order
  en_pc,                   \* create_label_if_not_exists calls: "off", "on"
  en_prov,                 \* the provider's labels
  en_hist,                 \* the calls made so far, with what they returned
  ctor_pc,                 \* mapped-class constructor call: "off", "called", "done"
  ctor_cls,                \* the mapped class
  ctor_kwargs,             \* the keyword arguments passed
  ctor_result,             \* the instance built, or the TypeError raised
  handlers,                \* start_clean calls running side by side: the
                           \* locals of each (empty when none is followed)
  claimed,                 \* history: <<handler, message>> claimed at 199-204
  labeled                  \* history: <<handler, message>> labeled by a call

vars ==
  <<runs, items, pc, request, run_id, emails, emails_to_process,
    items_to_process, classifications, labeling_error_message, retry_items,
    retry_classifications, exc, response, ncalls, engine_calls, items_at_start,
    cl_emails, cl_pc, cl_state, cl_attempt, cl_waits, cl_results, cl_final,
    cl_outcomes, client, cl_client, client_writers, all_classifications,
    lb_pc, lb_classifications, lb_env, lb_result, lb_calls,
    en_pc, en_prov, en_hist,
    ctor_pc, ctor_cls, ctor_kwargs, ctor_result,
    handlers, claimed, labeled>>

\* the state of start_clean and of the tables
pipeline_vars ==
  <<runs, items, pc, request, run_id, emails, emails_to_process,
    items_to_process, classifications, labeling_error_message, retry_items,
    retry_classifications, exc, response, ncalls, engine_calls, items_at_start>>

\* the state of a classify_emails_batch call that is followed step by step
engine_vars ==
  <<cl_emails, cl_pc, cl_state, cl_attempt, cl_waits, cl_results, cl_final,
    cl_outcomes, client, cl_client, client_writers, all_classifications>>

\* the state of an apply_labels_batch call that is followed on its own
label_vars ==
  <<lb_pc, lb_classifications, lb_env, lb_result, lb_calls,
    en_pc, en_prov, en_hist>>

\* the state of a constructor call that is followed on its own
ctor_vars == <<ctor_pc, ctor_cls, ctor_kwargs, ctor_result>>

\* the state of start_clean calls that run side by side
conc_vars == <<handlers, claimed, labeled>>

NoLabeling ==
  [success_count |-> 0, failed_count |-> 0, total |-> 0, results |-> <<>>]

\* an HTTP answer; keys are the keys of the JSON body
Response(http, status, keys) ==
  [http |-> http, status |-> status, keys |-> keys, run_id |-> 0,
   message |-> "", actual_count |-> 0, emails |-> <<>>,
   classifications |-> <<>>, summary |-> <<>>, labeling |-> NoLabeling,
   detail |-> ""]

NoResponse == Response(0, "", {})

RollupKeys ==
  {"run_id", "message", "email", "requested_count", "actual_count", "emails",
   "classifications", "summary", "labeling", "status"}

InitPipeline ==
  /\ runs = <<>>
  /\ items = <<>>
  /\ pc = "idle"
  /\ request = [email |-> "", count |-> 0]
  /\ run_id = 0
  /\ emails = <<>>
  /\ emails_to_process = <<>>
  /\ items_to_process = <<>>
  /\ classifications = <<>>
  /\ labeling_error_message = NoneVal
  /\ retry_items = <<>>
  /\ retry_classifications = <<>>
  /\ exc = NoneVal
  /\ response = NoResponse
  /\ ncalls = 0
  /\ engine_calls = <<>>
  /\ items_at_start = <<>>

\* no classify_emails_batch call is followed step by step
EngineOff ==
  /\ cl_emails = <<>>
  /\ cl_pc = "off"
  /\ cl_state = <<>>
  /\ cl_attempt = <<>>
  /\ cl_waits = <<>>
  /\ cl_results = <<>>
  /\ cl_final = <<>>
  /\ cl_outcomes = <<>>
  /\ client = NoneVal
  /\ cl_client = <<>>
  /\ client_writers = {}
  /\ all_classifications = <<>>

\* no apply_labels_batch call is followed on its own
LabelOff ==
  /\ lb_pc = "off"
  /\ lb_classifications = <<>>
  /\ lb_env = <<>>
  /\ lb_result = <<>>
  /\ lb_calls = <<>>
  /\ en_pc = "off"
  /\ en_prov = {}
  /\ en_hist = <<>>

\* no constructor call is followed on its own
CtorOff ==
  /\ ctor_pc = "off"
  /\ ctor_cls = ""
  /\ ctor_kwargs = {}
  /\ ctor_result = <<>>

\* no start_clean calls are followed side by side
ConcOff ==
  /\ handlers = <<>>
  /\ claimed = {}
  /\ labeled = {}

Init == InitPipeline /\ EngineOff /\ LabelOff /\ CtorOff /\ ConcOff

NoRequest == [email |-> "", count |-> 0]

\* a new request starts with fresh locals
BeginRequest(r) ==
  /\ request' = r
  /\ emails' = <<>>
  /\ emails_to_process' = <<>>
  /\ items_to_process' = <<>>
  /\ classifications' = <<>>
  /\ labeling_error_message' = NoneVal
  /\ retry_items' = <<>>
  /\ retry_classifications' = <<>>
  /\ exc' = NoneVal
  /\ engine_calls' = <<>>
  /\ items_at_start' = items

\* clean.py 21-35: the request body fails validation (HTTP 422)
RejectRequest(email, count) ==
  /\ pc = "idle"
  /\ ~(validate_count(count) /\ validate_email(email))
  /\ BeginRequest(NoRequest)
  /\ run_id' = 0
  /\ response' = [Response(422, "error", {"detail"}) EXCEPT
                    !.detail = "validation error"]
  /\ UNCHANGED <<runs, items, pc, ncalls>>
  /\ UNCHANGED <<engine_vars, label_vars, ctor_vars, conc_vars>>

\* variant: the run row is written before the user is looked up
UserNotFound_AfterRun(email, count) ==
  /\ pc = "idle"
  /\ validate_count(count) /\ validate_email(email)
  /\ email \notin UserEmails
  /\ BeginRequest(NoRequest)
  /\ run_id' = 0
  /\ response' = [Response(404, "error", {"detail"}) EXCEPT
                    !.detail = "User not found"]
  /\ runs' = Append(runs, EmailRun(0, count))
  /\ UNCHANGED <<items, pc, ncalls>>
  /\ UNCHANGED <<engine_vars, label_vars, ctor_vars, conc_vars>>

\* clean.py 51-53
UserNotFound(email, count) ==
  /\ pc = "idle"
  /\ validate_count(count) /\ validate_email(email)
  /\ email \notin UserEmails
  /\ BeginRequest(NoRequest)
  /\ run_id' = 0
  /\ response' = [Response(404, "error", {"detail"}) EXCEPT
                    !.detail = "User not found"]
  /\ UNCHANGED <<runs, items, pc, ncalls>>
  /\ UNCHANGED <<engine_vars, label_vars, ctor_vars, conc_vars>>

\* clean.py 51-65: the run is created NEW and committed
StartClean(email, count) ==
  /\ pc = "idle"
  /\ ncalls < MaxRuns
  /\ validate_count(count) /\ validate_email(email)
  /\ email \in UserEmails
  /\ ~(count < MinCount \/ count > MaxCount)
  /\ BeginRequest([email |-> email, count |-> count])
  /\ runs' = Append(runs, EmailRun(UserIdOf(email), count))
  /\ run_id' = Len(runs) + 1
  /\ response' = NoResponse
  /\ ncalls' = ncalls + 1
  /\ pc' = "created"
  /\ UNCHANGED items
  /\ UNCHANGED <<engine_vars, label_vars, ctor_vars, conc_vars>>

\* user.id of the row found at line 51
UserId == UserIdOf(request.email)

\* variant: the fetch is issued while the run is still NEW
MarkProcessing_Late ==
  /\ pc = "created"
  /\ pc' = "fetch"
  /\ UNCHANGED <<runs, items, request, run_id, emails, emails_to_process,
                 items_to_process, classifications, labeling_error_message,
                 retry_items, retry_classifications, exc, response, ncalls,
                 engine_calls, items_at_start>>
  /\ UNCHANGED <<engine_vars, label_vars, ctor_vars, conc_vars>>

\* clean.py 67-68
MarkProcessing ==
  /\ pc = "created"
  /\ runs' = [runs EXCEPT ![run_id].status = "PROCESSING"]
  /\ pc' = "fetch"
  /\ UNCHANGED <<items, request, run_id, emails, emails_to_process,
                 items_to_process, classifications, labeling_error_message,
                 retry_items, retry_classifications, exc, response, ncalls,
                 engine_calls, items_at_start>>
  /\ UNCHANGED <<engine_vars, label_vars, ctor_vars, conc_vars>>

\* clean.py 76: fetch_emails raises (gmail_service.py 44-46, 65-67, 281-285)
FetchRaises ==
  /\ pc = "fetch"
  /\ \E msg \in FetchErrors : exc' = msg
  /\ pc' = "except"
  /\ UNCHANGED <<runs, items, request, run_id, emails, emails_to_process,
                 items_to_process, classifications, labeling_error_message,
                 retry_items, retry_classifications, response, ncalls,
                 engine_calls, items_at_start>>
  /\ UNCHANGED <<engine_vars, label_vars, ctor_vars, conc_vars>>

\* variant: the empty fetch returns without completing the run
FetchNoEmails_NotCompleted ==
  /\ pc = "fetch"
  /\ <<>> \in FetchResults(UserId, request.count)
  /\ emails' = <<>>
  /\ runs' = runs
  /\ response' = [Response(200, "no_emails",
                           {"run_id", "message", "email", "requested_count",
                            "actual_count", "emails", "classifications",
                            "status"})
                    EXCEPT !.run_id = run_id, !.message = "No emails found"]
  /\ pc' = "idle"
  /\ UNCHANGED <<items, request, run_id, emails_to_process, items_to_process,
                 classifications, labeling_error_message, retry_items,
                 retry_classifications, exc, ncalls, engine_calls,
                 items_at_start>>
  /\ UNCHANGED <<engine_vars, label_vars, ctor_vars, conc_vars>>

\* clean.py 76-93: nothing was fetched
FetchNoEmails ==
  /\ pc = "fetch"
  /\ <<>> \in FetchResults(UserId, request.count)
  /\ emails' = <<>>
  /\ runs' = [runs EXCEPT ![run_id].status = "COMPLETED",
                          ![run_id].finished = TRUE]
  /\ response' = [Response(200, "no_emails",
                           {"run_id", "message", "email", "requested_count",
                            "actual_count", "emails", "classifications",
                            "status"})
                    EXCEPT !.run_id = run_id, !.message = "No emails found"]
  /\ pc' = "idle"
  /\ UNCHANGED <<items, request, run_id, emails_to_process, items_to_process,
                 classifications, labeling_error_message, retry_items,
                 retry_classifications, exc, ncalls, engine_calls,
                 items_at_start>>
  /\ UNCHANGED <<engine_vars, label_vars, ctor_vars, conc_vars>>

\* clean.py 76-94: some emails were fetched
FetchEmails ==
  /\ pc = "fetch"
  /\ \E r \in FetchResults(UserId, request.count) : r # <<>> /\ emails' = r
  /\ pc' = "ingest"
  /\ UNCHANGED <<runs, items, request, run_id, emails_to_process,
                 items_to_process, classifications, labeling_error_message,
                 retry_items, retry_classifications, exc, response, ncalls,
                 engine_calls, items_at_start>>
  /\ UNCHANGED <<engine_vars, label_vars, ctor_vars, conc_vars>>

\* variant: only the items that ended SUCCESS count as tracked
ExistingGmailIds_SuccessOnly(rows, uid) ==
  {rows[i].gmail_message_id :
     i \in {k \in DOMAIN rows : rows[k].user_id = uid
                                  /\ rows[k].status = "SUCCESS"}}

\* clean.py 100-105: the remote ids already tracked for the user
ExistingGmailIds(rows, uid) ==
  {rows[i].gmail_message_id : i \in {k \in DOMAIN rows : rows[k].user_id = uid}}

\* variant: the test of line 115 is left out
NewEmails_NoSkip(fetched, existing) ==
  SelectSeq(fetched, LAMBDA e : HasId(e.id))

\* clean.py 110-129: the fetched emails that get a new item
NewEmails(fetched, existing) ==
  SelectSeq(fetched, LAMBDA e : HasId(e.id) /\ e.id \notin existing)

\* clean.py 100-131: one EmailItem per new email; the commit at line 131
\* fails as a whole when the unique constraint is violated
Ingest ==
  /\ pc = "ingest"
  /\ LET new == NewEmails(emails, ExistingGmailIds(items, UserId))
         rows == [k \in 1..Len(new) |-> EmailItem(UserId, run_id, new[k].id)]
     IN IF UniqueConstraint(items \o rows)
        THEN /\ items' = items \o rows
             /\ emails_to_process' = new
             /\ items_to_process' = [k \in 1..Len(new) |-> Len(items) + k]
             /\ exc' = exc
             /\ pc' = "ingested"
        ELSE /\ exc' = IntegrityError
             /\ pc' = "except"
             /\ UNCHANGED <<items, emails_to_process, items_to_process>>
  /\ UNCHANGED <<runs, request, run_id, emails, classifications,
                 labeling_error_message, retry_items, retry_classifications,
                 response, ncalls, engine_calls, items_at_start>>
  /\ UNCHANGED <<engine_vars, label_vars, ctor_vars, conc_vars>>

\* clean.py 180-184: nothing new, the run is completed
ShortCircuit ==
  /\ pc = "ingested"
  /\ emails_to_process = <<>>
  /\ runs' = [runs EXCEPT ![run_id].status = "COMPLETED",
                          ![run_id].finished = TRUE,
                          ![run_id].error = NoneVal]
  /\ pc' = "rollup"
  /\ UNCHANGED <<items, request, run_id, emails, emails_to_process,
                 items_to_process, classifications, labeling_error_message,
                 retry_items, retry_classifications, exc, response, ncalls,
                 engine_calls, items_at_start>>
  /\ UNCHANGED <<engine_vars, label_vars, ctor_vars, conc_vars>>

\* variant: the claim does not count the attempt
ClaimItem_NoIncrement(it) ==
  [it EXCEPT !.status = "PROCESSING", !.last_error = NoneVal]

\* clean.py 201-203 and 287-289
ClaimItem(it) ==
  [it EXCEPT !.status = "PROCESSING", !.attempt_count = @ + 1,
             !.last_error = NoneVal]

\* clean.py 199-204
Claim ==
  /\ pc = "ingested"
  /\ emails_to_process # <<>>
  /\ items' = [i \in DOMAIN items |->
                IF i \in Range(items_to_process) THEN ClaimItem(items[i])
                ELSE items[i]]
  /\ pc' = "classify"
  /\ UNCHANGED <<runs, request, run_id, emails, emails_to_process,
                 items_to_process, classifications, labeling_error_message,
                 retry_items, retry_classifications, exc, response, ncalls,
                 engine_calls, items_at_start>>
  /\ UNCHANGED <<engine_vars, label_vars, ctor_vars, conc_vars>>

\* the orders in which n futures can complete
CompletionOrders(n) ==
  {o \in [1..n -> 1..n] : \A a, b \in 1..n : o[a] = o[b] => a = b}

\* what classify_emails_batch can return for these emails in a clean call
PipelineClassifications(es) ==
  LET batches == Batches(es)
      nb == Len(batches)
  IN {classify_emails_batch(es, outs, order) :
        outs \in {f \in [1..nb -> UNION {PipelineOracle(Len(batches[b])) :
                                           b \in 1..nb}] :
                   \A b \in 1..nb : f[b] \in PipelineOracle(Len(batches[b]))},
        order \in CompletionOrders(nb)}

\* clean.py 219-223 and 299-303: one classification written to its item
PersistOne(it, c, dflt) ==
  [it EXCEPT !.category = c.category, !.confidence = c.confidence,
             !.reason = c.reason,
             !.last_error = IF c.category = "ERROR" THEN Or(c.reason, dflt)
                            ELSE @]

\* variant: the classifications are taken by position, the first for the item
PersistClassifications_ByPosition(it, cs, dflt) ==
  IF cs = <<>> THEN it ELSE PersistOne(it, Head(cs), dflt)

\* clean.py 213-223 and 293-303: the loop over the classifications
RECURSIVE PersistClassifications(_, _, _)
PersistClassifications(it, cs, dflt) ==
  IF cs = <<>> THEN it
  ELSE PersistClassifications(
         IF HasId(Head(cs).email_id)
              /\ Head(cs).email_id = it.gmail_message_id
         THEN PersistOne(it, Head(cs), dflt) ELSE it,
         Tail(cs), dflt)

EngineCall(engine, ids, raised, results) ==
  [engine |-> engine, ids |-> ids, raised |-> raised, results |-> results]

IdsOf(es) == [k \in DOMAIN es |-> es[k].id]

\* clean.py 210-224
Classify ==
  /\ pc = "classify"
  /\ \E cs \in PipelineClassifications(emails_to_process) :
       /\ classifications' = cs
       /\ items' = [i \in DOMAIN items |->
                     IF i \in Range(items_to_process)
                     THEN PersistClassifications(items[i], cs,
                                                 "LLM classification error")
                     ELSE items[i]]
       /\ engine_calls' = Append(engine_calls,
                                 EngineCall("classify",
                                            IdsOf(emails_to_process), FALSE,
                                            cs))
  /\ pc' = "label"
  /\ UNCHANGED <<runs, request, run_id, emails, emails_to_process,
                 items_to_process, labeling_error_message, retry_items,
                 retry_classifications, exc, response, ncalls, items_at_start>>
  /\ UNCHANGED <<engine_vars, label_vars, ctor_vars, conc_vars>>

\* clean.py 240-254: the labeling call, a raise replaced by a failed result
LabelingResult(res, cs) ==
  IF res.raised
  THEN [success_count |-> 0, failed_count |-> Len(cs), results |-> <<>>,
        total |-> 0, error |-> res.msg]
  ELSE [success_count |-> res.success_count,
        failed_count |-> res.failed_count, results |-> res.results,
        total |-> res.total, error |-> NoneVal]

\* clean.py 257-266 and 313-319
SuccessIds(results) ==
  {results[k].email_id :
     k \in {j \in DOMAIN results :
              HasId(results[j].email_id) /\ results[j].success}}
FailedIds(results) ==
  {results[k].email_id :
     k \in {j \in DOMAIN results :
              HasId(results[j].email_id) /\ ~results[j].success}}

\* variant: line 272 tests only the per-item results
Reconcile_ResultsOnly(it, labeling_result, error_message) ==
  IF it.gmail_message_id \in SuccessIds(labeling_result.results)
  THEN [it EXCEPT !.status = "SUCCESS", !.last_error = NoneVal]
  ELSE IF it.gmail_message_id \in FailedIds(labeling_result.results)
  THEN [it EXCEPT !.status = "FAILED",
                  !.last_error = Or(error_message,
                                    Or(labeling_result.error,
                                       "Labeling failed"))]
  ELSE it

\* variant: line 272 does not look at the failed per-item results
Reconcile_ErrorOnly(it, labeling_result, error_message) ==
  IF it.gmail_message_id \in SuccessIds(labeling_result.results)
  THEN [it EXCEPT !.status = "SUCCESS", !.last_error = NoneVal]
  ELSE IF Truthy(error_message)
  THEN [it EXCEPT !.status = "FAILED",
                  !.last_error = Or(error_message,
                                    Or(labeling_result.error,
                                       "Labeling failed"))]
  ELSE it

\* variant: line 270 is missing, a labeled item keeps its last_error
Reconcile_KeepError(it, labeling_result, error_message) ==
  IF it.gmail_message_id \in SuccessIds(labeling_result.results)
  THEN [it EXCEPT !.status = "SUCCESS"]
  ELSE IF it.gmail_message_id \in FailedIds(labeling_result.results)
            \/ Truthy(error_message)
  THEN [it EXCEPT !.status = "FAILED",
                  !.last_error = Or(error_message,
                                    Or(labeling_result.error,
                                       "Labeling failed"))]
  ELSE it

\* clean.py 268-274
Reconcile(it, labeling_result, error_message) ==
  IF it.gmail_message_id \in SuccessIds(labeling_result.results)
  THEN [it EXCEPT !.status = "SUCCESS", !.last_error = NoneVal]
  ELSE IF it.gmail_message_id \in FailedIds(labeling_result.results)
            \/ Truthy(error_message)
  THEN [it EXCEPT !.status = "FAILED",
                  !.last_error = Or(error_message,
                                    Or(labeling_result.error,
                                       "Labeling failed"))]
  ELSE it

\* clean.py 239-275: labeling and first-pass reconciliation
Label ==
  /\ pc = "label"
  /\ \E env \in LabelEnvs(classifications) :
       LET res == apply_labels_batch(classifications, env)
           msg == IF res.raised THEN res.msg ELSE NoneVal
           labeling_result == LabelingResult(res, classifications)
       IN /\ labeling_error_message' = msg
          /\ items' = [i \in DOMAIN items |->
                        IF i \in Range(items_to_process)
                        THEN Reconcile(items[i], labeling_result, msg)
                        ELSE items[i]]
          /\ engine_calls' = Append(engine_calls,
                                    EngineCall("label",
                                               IdsOf(emails_to_process),
                                               res.raised, res.results))
  /\ pc' = "retry"
  /\ UNCHANGED <<runs, request, run_id, emails, emails_to_process,
                 items_to_process, classifications, retry_items,
                 retry_classifications, exc, response, ncalls, items_at_start>>
  /\ UNCHANGED <<engine_vars, label_vars, ctor_vars, conc_vars>>

\* variant: the retry takes every FAILED row of the table
RetryItems_AllFailed(rows, to_process) ==
  SelectSeq([i \in 1..Len(rows) |-> i], LAMBDA i : rows[i].status = "FAILED")

\* variant: the retry claims every item of the first pass again
RetryItems_WholePass(rows, to_process) == to_process

\* clean.py 278-281
RetryItems(rows, to_process) ==
  SelectSeq(to_process,
            LAMBDA i : rows[i].status = "FAILED"
                       /\ rows[i].attempt_count < MaxAttempts)

\* variant: the retry pass is given every email of the first pass
RetryEmails_All(rows, retry, to_process) == to_process

\* clean.py 283-284
RetryEmails(rows, retry, to_process) ==
  SelectSeq(to_process,
            LAMBDA e : e.id \in {rows[i].gmail_message_id : i \in Range(retry)})

\* clean.py 278-290: the failed items are claimed again
RetryClaim ==
  /\ pc = "retry"
  /\ RetryItems(items, items_to_process) # <<>>
  /\ retry_items' = RetryItems(items, items_to_process)
  /\ items' = [i \in DOMAIN items |->
                IF i \in Range(RetryItems(items, items_to_process))
                THEN ClaimItem(items[i]) ELSE items[i]]
  /\ pc' = "retry_classify"
  /\ UNCHANGED <<runs, request, run_id, emails, emails_to_process,
                 items_to_process, classifications, labeling_error_message,
                 retry_classifications, exc, response, ncalls, engine_calls,
                 items_at_start>>
  /\ UNCHANGED <<engine_vars, label_vars, ctor_vars, conc_vars>>

\* clean.py 278-282: no item to retry
NoRetry ==
  /\ pc = "retry"
  /\ RetryItems(items, items_to_process) = <<>>
  /\ pc' = "complete"
  /\ UNCHANGED <<runs, items, request, run_id, emails, emails_to_process,
                 items_to_process, classifications, labeling_error_message,
                 retry_items, retry_classifications, exc, response, ncalls,
                 engine_calls, items_at_start>>
  /\ UNCHANGED <<engine_vars, label_vars, ctor_vars, conc_vars>>

\* clean.py 292-304
RetryClassify ==
  /\ pc = "retry_classify"
  /\ LET retry_emails == RetryEmails(items, retry_items, emails_to_process)
     IN \E cs \in PipelineClassifications(retry_emails) :
          /\ retry_classifications' = cs
          /\ items' = [i \in DOMAIN items |->
                        IF i \in Range(retry_items)
                        THEN PersistClassifications(
                               items[i], cs,
                               "LLM classification error (retry)")
                        ELSE items[i]]
          /\ engine_calls' = Append(engine_calls,
                                    EngineCall("classify", IdsOf(retry_emails),
                                               FALSE, cs))
  /\ pc' = "retry_label"
  /\ UNCHANGED <<runs, request, run_id, emails, emails_to_process,
                 items_to_process, classifications, labeling_error_message,
                 retry_items, exc, response, ncalls, items_at_start>>
  /\ UNCHANGED <<engine_vars, label_vars, ctor_vars, conc_vars>>

\* clean.py 321-327
RetryReconcile(it, retry_labeling_result, retry_label_error) ==
  IF it.gmail_message_id \in SuccessIds(retry_labeling_result.results)
  THEN [it EXCEPT !.status = "SUCCESS", !.last_error = NoneVal]
  ELSE [it EXCEPT !.status = "FAILED",
                  !.last_error = Or(retry_label_error,
                                    Or(retry_labeling_result.error,
                                       Or(@, "Retry failed")))]

\* clean.py 306-328: labeling and reconciliation of the retry pass
RetryLabel ==
  /\ pc = "retry_label"
  /\ \E env \in LabelEnvs(retry_classifications) :
       LET res == apply_labels_batch(retry_classifications, env)
           retry_label_error == IF res.raised THEN res.msg ELSE NoneVal
           retry_labeling_result ==
             IF res.raised
             THEN [results |-> <<>>, error |-> res.msg]
             ELSE [results |-> res.results, error |-> NoneVal]
       IN /\ items' = [i \in DOMAIN items |->
                        IF i \in Range(retry_items)
                        THEN RetryReconcile(items[i], retry_labeling_result,
                                            retry_label_error)
                        ELSE items[i]]
          /\ engine_calls' =
               Append(engine_calls,
                      EngineCall("label",
                                 IdsOf(RetryEmails(items, retry_items,
                                                   emails_to_process)),
                                 res.raised, res.results))
  /\ pc' = "complete"
  /\ UNCHANGED <<runs, request, run_id, emails, emails_to_process,
                 items_to_process, classifications, labeling_error_message,
                 retry_items, retry_classifications, exc, response, ncalls,
                 items_at_start>>
  /\ UNCHANGED <<engine_vars, label_vars, ctor_vars, conc_vars>>

\* variant: a labeling error fails the run
CompleteRun_FailsOnLabelError(r, error_message) ==
  [r EXCEPT !.status = IF Truthy(error_message) THEN "FAILED"
                       ELSE "COMPLETED",
            !.finished = TRUE, !.error = error_message]

\* clean.py 337-340
CompleteRun(r, error_message) ==
  [r EXCEPT !.status = "COMPLETED", !.finished = TRUE, !.error = error_message]

\* clean.py 336-340
Complete ==
  /\ pc = "complete"
  /\ runs' = [runs EXCEPT ![run_id] = CompleteRun(@, labeling_error_message)]
  /\ pc' = "rollup"
  /\ UNCHANGED <<items, request, run_id, emails, emails_to_process,
                 items_to_process, classifications, labeling_error_message,
                 retry_items, retry_classifications, exc, response, ncalls,
                 engine_calls, items_at_start>>
  /\ UNCHANGED <<engine_vars, label_vars, ctor_vars, conc_vars>>

\* clean.py 135: the ids of the fetched emails
FetchedIds(fetched) == IdsOf(SelectSeq(fetched, LAMBDA e : HasId(e.id)))

\* variant: the query of line 142 does not filter by user
RollupItems_AnyUser(rows, uid, fetched_ids) ==
  SelectSeq(rows, LAMBDA it : it.gmail_message_id \in Range(fetched_ids))

\* clean.py 139-146: the user's items among the fetched ids
RollupItems(rows, uid, fetched_ids) ==
  SelectSeq(rows, LAMBDA it : it.user_id = uid
                              /\ it.gmail_message_id \in Range(fetched_ids))

\* clean.py 134-178
build_rollup_for_fetched_emails(rows, uid, fetched) ==
  LET fetched_ids == FetchedIds(fetched)
      its == RollupItems(rows, uid, fetched_ids)
      classifications_from_db ==
        [k \in DOMAIN its |->
           Outcome(its[k].gmail_message_id,
                   Or(its[k].category, "UNKNOWN"),
                   IF its[k].confidence # NoConfidence THEN its[k].confidence
                   ELSE 0,
                   Or(its[k].reason, Or(its[k].last_error, "")))]
      results ==
        [k \in DOMAIN its |->
           LabelResult(its[k].gmail_message_id, Or(its[k].category, "UNKNOWN"),
                       its[k].status = "SUCCESS",
                       IF its[k].status = "SUCCESS" THEN NoneVal
                       ELSE Or(its[k].last_error, "Failed"))]
  IN IF fetched_ids = <<>>
     THEN [fetched_ids |-> <<>>,
           formatted_all |-> [classifications |-> <<>>, summary |-> <<>>],
           labeling_rollup |-> NoLabeling]
     ELSE [fetched_ids |-> fetched_ids,
           formatted_all |->
             format_classifications_for_display(classifications_from_db),
           labeling_rollup |->
             [success_count |->
                Cardinality({k \in DOMAIN its : its[k].status = "SUCCESS"}),
              failed_count |->
                Cardinality({k \in DOMAIN its : its[k].status = "FAILED"}),
              total |-> Len(its), results |-> results]]

\* clean.py 185-197 and 343-355: the rollup over all fetched emails
Rollup ==
  /\ pc = "rollup"
  /\ LET r == build_rollup_for_fetched_emails(items, UserId, emails)
     IN response' =
          [Response(200, "completed", RollupKeys) EXCEPT
             !.run_id = run_id,
             !.message =
               IF emails_to_process = <<>>
               THEN "All fetched emails were already processed (no new work needed)"
               ELSE "Emails fetched, classified, and labeled successfully",
             !.actual_count = Len(r.fetched_ids),
             !.emails = emails,
             !.classifications = r.formatted_all.classifications,
             !.summary = r.formatted_all.summary,
             !.labeling = r.labeling_rollup]
  /\ pc' = "idle"
  /\ UNCHANGED <<runs, items, request, run_id, emails, emails_to_process,
                 items_to_process, classifications, labeling_error_message,
                 retry_items, retry_classifications, exc, ncalls, engine_calls,
                 items_at_start>>
  /\ UNCHANGED <<engine_vars, label_vars, ctor_vars, conc_vars>>

\* clean.py 139-146: the query of the rollup raises (the database is
\* unreachable for the query)
RollupRaises ==
  /\ pc = "rollup"
  /\ exc' = "OperationalError: could not connect to server"
  /\ pc' = "except"
  /\ UNCHANGED <<runs, items, request, run_id, emails, emails_to_process,
                 items_to_process, classifications, labeling_error_message,
                 retry_items, retry_classifications, response, ncalls,
                 engine_calls, items_at_start>>
  /\ UNCHANGED <<engine_vars, label_vars, ctor_vars, conc_vars>>

\* variant: line 362 is left out
FailRun_NoError(r, e) ==
  [r EXCEPT !.status = "FAILED", !.finished = TRUE]

\* clean.py 360-362
FailRun(r, e) ==
  [r EXCEPT !.status = "FAILED", !.finished = TRUE, !.error = e]

\* clean.py 356-373: the run is marked FAILED and HTTP 500 is raised
HandleException ==
  /\ pc = "except"
  /\ runs' = [runs EXCEPT ![run_id] = FailRun(@, exc)]
  /\ response' = [Response(500, "error", {"detail"}) EXCEPT
                    !.detail = "Failed to process emails: " \o exc]
  /\ pc' = "idle"
  /\ UNCHANGED <<items, request, run_id, emails, emails_to_process,
                 items_to_process, classifications, labeling_error_message,
                 retry_items, retry_classifications, exc, ncalls, engine_calls,
                 items_at_start>>
  /\ UNCHANGED <<engine_vars, label_vars, ctor_vars, conc_vars>>

Next ==
  \/ \E email \in RequestEmails, count \in RequestCounts :
       RejectRequest(email, count)
  \/ \E email \in RequestEmails, count \in RequestCounts :
       UserNotFound(email, count)
  \/ \E email \in RequestEmails, count \in RequestCounts :
       StartClean(email, count)
  \/ MarkProcessing
  \/ FetchRaises
  \/ FetchNoEmails
  \/ FetchEmails
  \/ Ingest
  \/ ShortCircuit
  \/ Claim
  \/ Classify
  \/ Label
  \/ RetryClaim
  \/ NoRetry
  \/ RetryClassify
  \/ RetryLabel
  \/ Complete
  \/ Rollup
  \/ HandleException

(* ============ classify_emails_batch, followed step by step ============ *)
\* the emails with ids 1..n
EmailsUpTo(n) == [k \in 1..n |-> [id |-> k]]

\* list elements the oracle can return
OracleRecords ==
  {Rec("MARKETING", 90), Rec("FYI_READ_LATER", 70), Rec("SPAM", 80),
   [Rec("AUTOMATED", 60) EXCEPT !.keys = {"category"}],
   [Rec("", 50) EXCEPT !.keys = {"confidence", "reason"}],
   [Rec("", 0) EXCEPT !.isdict = FALSE, !.keys = {}],
   [Rec("", 40) EXCEPT !.hashable = FALSE]}

\* lists of k elements: valid records with one arbitrary element, first or last
ListsOfLen(k) ==
  {[j \in 1..k |-> IF j = p THEN r ELSE Rec("IMPORTANT_ACTION", 95)] :
     p \in {1, k}, r \in OracleRecords}

\* lists for a sub-batch of n emails: one short, exact, one long, or empty
OracleLists(n) ==
  {<<>>} \cup UNION {ListsOfLen(k) : k \in {m \in {n - 1, n, n + 1} : m >= 1}}

\* what one oracle call for a sub-batch of n emails can end in
AttemptOutcomes(n) ==
  {RateLimit, OracleError, Content("object", <<>>), Content("garbage", <<>>)}
    \cup {Content("array", l) : l \in OracleLists(n)}
    \cup {Content(shape, [j \in 1..n |-> Rec("LOW_VALUE_NOISE", 55)]) :
            shape \in {"fenced", "wrapped"}}

\* the sub-batches of the call
cl_batches == Batches(cl_emails)

\* llm_service.py 300-325: the call starts, its sub-batches are submitted
InitClassify ==
  /\ InitPipeline /\ LabelOff /\ CtorOff /\ ConcOff
  /\ \E n \in 0..MaxClassify :
       /\ cl_emails = EmailsUpTo(n)
       /\ cl_state = [b \in 1..Len(Batches(EmailsUpTo(n))) |-> "queued"]
       /\ cl_attempt = [b \in 1..Len(Batches(EmailsUpTo(n))) |-> 0]
       /\ cl_waits = [b \in 1..Len(Batches(EmailsUpTo(n))) |-> <<>>]
       /\ cl_results = [b \in 1..Len(Batches(EmailsUpTo(n))) |-> <<>>]
       /\ cl_final = [b \in 1..Len(Batches(EmailsUpTo(n))) |-> <<>>]
       /\ cl_outcomes = [b \in 1..Len(Batches(EmailsUpTo(n))) |-> <<>>]
       /\ cl_client = [b \in 1..Len(Batches(EmailsUpTo(n))) |-> "none"]
  /\ client \in {NoneVal, "earlier call"}
  /\ client_writers = {}
  /\ cl_pc = "running"
  /\ all_classifications = <<>>

\* llm_service.py 365-370: a pool thread takes the next submitted sub-batch
WorkerStart(b) ==
  /\ cl_pc = "running"
  /\ cl_state[b] = "queued"
  /\ \A a \in 1..(b - 1) : cl_state[a] # "queued"
  /\ Cardinality({a \in DOMAIN cl_state : cl_state[a] = "running"})
       < max_workers
  /\ cl_state' = [cl_state EXCEPT ![b] = "running"]
  /\ UNCHANGED <<cl_emails, cl_pc, cl_attempt, cl_waits, cl_results,
                 cl_final, cl_outcomes, client, cl_client, client_writers,
                 all_classifications>>
  /\ UNCHANGED <<pipeline_vars, label_vars, ctor_vars, conc_vars>>

\* llm_service.py 161 and 17-18: the worker of sub-batch b calls
\* get_openai_client and tests  _client is None
ClientCheck(b) ==
  /\ cl_pc = "running"
  /\ cl_state[b] = "running"
  /\ cl_client[b] = "none"
  /\ cl_client' = [cl_client EXCEPT
                     ![b] = IF client = NoneVal THEN "creating" ELSE "have"]
  /\ UNCHANGED <<cl_emails, cl_pc, cl_state, cl_attempt, cl_waits, cl_results,
                 cl_final, cl_outcomes, client, client_writers,
                 all_classifications>>
  /\ UNCHANGED <<pipeline_vars, label_vars, ctor_vars, conc_vars>>

\* llm_service.py 19-45: the worker that found _client unset builds a
\* client, assigns the global and returns what the global holds
ClientCreate(b) ==
  /\ cl_pc = "running"
  /\ cl_state[b] = "running"
  /\ cl_client[b] = "creating"
  /\ client' = "worker"
  /\ client_writers' = client_writers \cup {b}
  /\ cl_client' = [cl_client EXCEPT ![b] = "have"]
  /\ UNCHANGED <<cl_emails, cl_pc, cl_state, cl_attempt, cl_waits, cl_results,
                 cl_final, cl_outcomes, all_classifications>>
  /\ UNCHANGED <<pipeline_vars, label_vars, ctor_vars, conc_vars>>

\* variant: line 188 does not look at the kind of the failure
OracleAttempt_RetryAny(b) ==
  /\ cl_pc = "running"
  /\ cl_state[b] = "running"
  /\ cl_client[b] = "have"
  /\ \E o \in AttemptOutcomes(Len(cl_batches[b])) :
       /\ IF o.kind # "content" /\ cl_attempt[b] < max_retries - 1
          THEN /\ cl_waits' = [cl_waits EXCEPT
                                 ![b] = Append(@, retry_delay * (cl_attempt[b] + 1))]
               /\ UNCHANGED <<cl_state, cl_results, cl_final>>
          ELSE /\ cl_results' =
                    [cl_results EXCEPT
                       ![b] = ResultsOfCall(cl_batches[b],
                                            [raised |-> o.kind # "content",
                                             msg |-> o.msg, out |-> o])]
               /\ cl_state' = [cl_state EXCEPT ![b] = "finished"]
               /\ cl_final' = [cl_final EXCEPT ![b] = o]
               /\ UNCHANGED cl_waits
       /\ cl_outcomes' = [cl_outcomes EXCEPT ![b] = Append(@, o.kind)]
  /\ cl_attempt' = [cl_attempt EXCEPT ![b] = @ + 1]
  /\ UNCHANGED <<cl_emails, cl_pc, client, cl_client, client_writers,
                 all_classifications>>
  /\ UNCHANGED <<pipeline_vars, label_vars, ctor_vars, conc_vars>>

\* llm_service.py 166-197: one pass of the retry loop of sub-batch b; after
\* the last pass classify_single_batch builds its result (199-297)
OracleAttempt(b) ==
  /\ cl_pc = "running"
  /\ cl_state[b] = "running"
  /\ cl_client[b] = "have"
  /\ \E o \in AttemptOutcomes(Len(cl_batches[b])) :
       /\ IF o.kind = "rate_limit" /\ cl_attempt[b] < max_retries - 1
          THEN /\ cl_waits' = [cl_waits EXCEPT
                                 ![b] = Append(@, retry_delay * (cl_attempt[b] + 1))]
               /\ UNCHANGED <<cl_state, cl_results, cl_final>>
          ELSE /\ cl_results' =
                    [cl_results EXCEPT
                       ![b] = ResultsOfCall(cl_batches[b],
                                            [raised |-> o.kind # "content",
                                             msg |-> o.msg, out |-> o])]
               /\ cl_state' = [cl_state EXCEPT ![b] = "finished"]
               /\ cl_final' = [cl_final EXCEPT ![b] = o]
               /\ UNCHANGED cl_waits
       /\ cl_outcomes' = [cl_outcomes EXCEPT ![b] = Append(@, o.kind)]
  /\ cl_attempt' = [cl_attempt EXCEPT ![b] = @ + 1]
  /\ UNCHANGED <<cl_emails, cl_pc, client, cl_client, client_writers,
                 all_classifications>>
  /\ UNCHANGED <<pipeline_vars, label_vars, ctor_vars, conc_vars>>

\* llm_service.py 373-377: as_completed hands over a finished sub-batch
Collect(b) ==
  /\ cl_pc = "running"
  /\ cl_state[b] = "finished"
  /\ all_classifications' = all_classifications \o cl_results[b]
  /\ cl_state' = [cl_state EXCEPT ![b] = "collected"]
  /\ UNCHANGED <<cl_emails, cl_pc, cl_attempt, cl_waits, cl_results,
                 cl_final, cl_outcomes, client, cl_client, client_writers>>
  /\ UNCHANGED <<pipeline_vars, label_vars, ctor_vars, conc_vars>>

\* llm_service.py 305-306 and 390-392
ClassifyReturn ==
  /\ cl_pc = "running"
  /\ \A b \in DOMAIN cl_state : cl_state[b] = "collected"
  /\ cl_pc' = "returned"
  /\ UNCHANGED <<cl_emails, cl_state, cl_attempt, cl_waits, cl_results,
                 cl_final, cl_outcomes, client, cl_client, client_writers,
                 all_classifications>>
  /\ UNCHANGED <<pipeline_vars, label_vars, ctor_vars, conc_vars>>

NextClassify ==
  \/ \E b \in DOMAIN cl_state : WorkerStart(b)
  \/ \E b \in DOMAIN cl_state : ClientCheck(b)
  \/ \E b \in DOMAIN cl_state : ClientCreate(b)
  \/ \E b \in DOMAIN cl_state : OracleAttempt(b)
  \/ \E b \in DOMAIN cl_state : Collect(b)
  \/ ClassifyReturn

\* one classify_emails_batch call on 0..MaxClassify emails
SpecClassify == InitClassify /\ [][NextClassify]_vars

(* ============ the mapped classes of database.py, constructed ========== *)
(* EmailRun and EmailItem get the default constructor of declarative_base, *)
(* which accepts a keyword only if the class has an attribute of that name *)
(* and raises TypeError otherwise.  The pipeline actions above are         *)
(* followed on rows that carry every attribute start_clean passes and      *)
(* assigns; here the constructor is applied to the classes as declared.    *)

\* database.py 62-81 and 84-119: the columns and relationships declared
DeclaredAttributes(cls) ==
  IF cls = "EmailRun"
  THEN {"id", "user_id", "status", "started_at", "finished_at", "error",
        "user", "email_items"}
  ELSE {"id", "user_id", "run_id", "gmail_message_id", "status", "category",
        "confidence", "reason", "created_at", "updated_at", "user", "run"}

\* database.py 26: the constructor the classes inherit from Base
declarative_constructor(cls, kwargs) ==
  IF kwargs \subseteq DeclaredAttributes(cls)
  THEN [raised |-> FALSE, msg |-> "", instance |-> kwargs]
  ELSE [raised |-> TRUE,
        msg |-> "TypeError: invalid keyword argument for " \o cls,
        instance |-> {}]

\* clean.py 62: the keywords of the EmailRun(...) call
RunKwargs == {"user_id", "requested_count", "status"}
\* clean.py 119-126: the keywords of the EmailItem(...) call
ItemKwargs ==
  {"user_id", "run_id", "gmail_message_id", "status", "attempt_count",
   "last_error"}

\* the keywords a caller may pass
KwargNames == RunKwargs \cup ItemKwargs \cup {"category", "error"}

InitConstruct ==
  /\ InitPipeline /\ EngineOff /\ LabelOff /\ ConcOff
  /\ ctor_pc = "called"
  /\ ctor_cls \in {"EmailRun", "EmailItem"}
  /\ ctor_kwargs \in SUBSET KwargNames
  /\ ctor_result = <<>>

\* the constructor runs
Construct ==
  /\ ctor_pc = "called"
  /\ ctor_result' = declarative_constructor(ctor_cls, ctor_kwargs)
  /\ ctor_pc' = "done"
  /\ UNCHANGED <<ctor_cls, ctor_kwargs>>
  /\ UNCHANGED <<pipeline_vars, engine_vars, label_vars, conc_vars>>

NextConstruct == Construct

\* one constructor call on a mapped class
SpecConstruct == InitConstruct /\ [][NextConstruct]_vars

(* ================ apply_labels_batch, followed on its own ============= *)
\* the classifications of the call: the k-th is for message k or carries
\* no id, with a category inside or outside the taxonomy
LabelInputs ==
  UNION {[1..n -> {"MARKETING", "AUTOMATED", "ERROR"} \X BOOLEAN] :
           n \in 0..MaxLabel}

ClassificationsOf(input) ==
  [k \in DOMAIN input |->
     Outcome(IF input[k][2] THEN k ELSE 0, input[k][1], 90, "because")]

Faults(list, patch, create, create2) ==
  [list |-> list, patch |-> patch, create |-> create, create2 |-> create2]

\* how one label stands at the provider before the call, and what the
\* provider does while the label is resolved
LabelScenarios ==
  {[present |-> TRUE, colored |-> TRUE, f |-> Faults("ok", "ok", "ok", "ok")],
   [present |-> TRUE, colored |-> FALSE,
    f |-> Faults("ok", "ok", "ok", "ok")],
   [present |-> TRUE, colored |-> FALSE,
    f |-> Faults("ok", "raises", "ok", "ok")],
   [present |-> FALSE, colored |-> FALSE,
    f |-> Faults("ok", "ok", "ok", "ok")],
   [present |-> FALSE, colored |-> FALSE,
    f |-> Faults("ok", "ok", "color", "ok")],
   [present |-> FALSE, colored |-> FALSE,
    f |-> Faults("ok", "ok", "color", "raises")],
   [present |-> FALSE, colored |-> FALSE,
    f |-> Faults("ok", "ok", "raises", "ok")],
   [present |-> FALSE, colored |-> FALSE,
    f |-> Faults("raises", "ok", "ok", "ok")]}

\* a label of the user's that the application never asks for
OtherLabel == [name |-> "Personal", id |-> 1, colored |-> FALSE]

\* the provider's labels before the call
ProviderLabels(order, sc) ==
  {OtherLabel}
    \cup {[name |-> order[k], id |-> k + 1, colored |-> sc[order[k]].colored] :
            k \in {j \in 1..Len(order) : sc[order[j]].present}}

\* the sequences that list the members of S once each
Orderings(S) ==
  {o \in [1..Cardinality(S) -> S] : \A i, j \in DOMAIN o : o[i] = o[j] => i = j}

\* the provider's behaviour: no service, or each label in one of the
\* scenarios and any bulk-modify calls thrown; missing is what
\* ensure_labels_exist leaves out of label_map
LabelFaults(cs) ==
  LET order == LabelOrder(cs, {})
      labels == Range(order)
  IN {[service |-> FALSE, missing |-> {}, failing |-> {},
       error |-> ModifyError]}
     \cup {[service |-> TRUE,
            prov |-> ProviderLabels(order, sc),
            faults |-> [l \in labels |-> sc[l].f],
            missing |->
              labels \ DOMAIN ensure_labels_exist(
                                ProviderLabels(order, sc), order,
                                [l \in labels |-> sc[l].f]).label_map,
            failing |-> {<<l, 0>> : l \in f}, error |-> ModifyError] :
              sc \in [labels -> LabelScenarios], f \in SUBSET labels}

InitLabel ==
  /\ InitPipeline /\ EngineOff /\ CtorOff /\ ConcOff
  /\ lb_pc = "called"
  /\ \E input \in LabelInputs :
       /\ lb_classifications = ClassificationsOf(input)
       /\ lb_env \in LabelFaults(ClassificationsOf(input))
  /\ lb_result = <<>>
  /\ lb_calls = <<>>
  /\ en_pc = "off"
  /\ en_prov = {}
  /\ en_hist = <<>>

\* gmail_label_service.py 172-294: the call runs to its return or raise
ApplyLabels ==
  /\ lb_pc = "called"
  /\ lb_result' = apply_labels_batch(lb_classifications, lb_env)
  /\ \E ensure_order \in
          Orderings(Range(LabelOrder(lb_classifications, {}))) :
       lb_calls' = RemoteCalls(lb_classifications, lb_env, ensure_order)
  /\ lb_pc' = "done"
  /\ UNCHANGED <<lb_classifications, lb_env, en_pc, en_prov, en_hist>>
  /\ UNCHANGED <<pipeline_vars, engine_vars, ctor_vars, conc_vars>>

NextLabel == ApplyLabels

\* one apply_labels_batch call
SpecLabel == InitLabel /\ [][NextLabel]_vars

(* ============ create_label_if_not_exists, call after call ============= *)
\* the label names asked for
EnsureNames == {"MARKETING", "UNKNOWN"}

\* what the provider may do during a call
EnsureFaults == {sc.f : sc \in LabelScenarios}

\* the labels the provider may hold before the first call
EnsureProviders ==
  {{OtherLabel} \cup p :
     p \in SUBSET {[name |-> "MARKETING", id |-> 2, colored |-> TRUE],
                   [name |-> "UNKNOWN", id |-> 3, colored |-> FALSE]}}

InitEnsure ==
  /\ InitPipeline /\ EngineOff /\ CtorOff /\ ConcOff
  /\ lb_pc = "off"
  /\ lb_classifications = <<>>
  /\ lb_env = <<>>
  /\ lb_result = <<>>
  /\ lb_calls = <<>>
  /\ en_pc = "on"
  /\ en_prov \in EnsureProviders
  /\ en_hist = <<>>

\* gmail_label_service.py 61-145: one call, from its lookup to its return
EnsureLabel ==
  /\ en_pc = "on"
  /\ Len(en_hist) < MaxEnsure
  /\ \E label_name \in EnsureNames, f \in EnsureFaults :
       LET r == create_label_if_not_exists(en_prov, label_name, f)
       IN /\ en_prov' = r.prov
          /\ en_hist' = Append(en_hist,
                               [name |-> label_name, f |-> f,
                                before |-> en_prov, after |-> r.prov,
                                id |-> r.id, calls |-> r.calls])
  /\ UNCHANGED <<lb_pc, lb_classifications, lb_env, lb_result, lb_calls,
                 en_pc>>
  /\ UNCHANGED <<pipeline_vars, engine_vars, ctor_vars, conc_vars>>

NextEnsure == EnsureLabel

\* a sequence of create_label_if_not_exists calls on one provider
SpecEnsure == InitEnsure /\ [][NextEnsure]_vars

(* ============== start_clean, two calls side by side =================== *)
(* Two requests of one user are served by two server processes over the    *)
(* same database.  Each call has its own session and locals; the tables    *)
(* runs and items are shared, and a call sees what the other committed.    *)
(* A call is followed from one commit to the next.                         *)
Handlers == {1, 2}
ConcUser == UserIdOf("ann@example.com")

IdleHandler ==
  [pc |-> "idle", run_id |-> 0, emails |-> <<>>, existing |-> {},
   emails_to_process |-> <<>>, items_to_process |-> <<>>,
   labeling_error_message |-> NoneVal, exc |-> NoneVal, http |-> 0]

\* the variables of the single-call pipeline, unused here
single_call_vars ==
  <<pc, request, run_id, emails, emails_to_process, items_to_process,
    classifications, labeling_error_message, retry_items,
    retry_classifications, exc, response, ncalls, engine_calls,
    items_at_start>>

InitConcurrent ==
  /\ InitPipeline /\ EngineOff /\ LabelOff /\ CtorOff
  /\ handlers = [h \in Handlers |-> IdleHandler]
  /\ claimed = {}
  /\ labeled = {}

\* clean.py 62-68: the run is created and marked PROCESSING
CCreateRun(h) ==
  /\ handlers[h].pc = "idle"
  /\ runs' = Append(runs, [EmailRun(ConcUser, MaxMsg) EXCEPT
                             !.status = "PROCESSING"])
  /\ handlers' = [handlers EXCEPT ![h].run_id = Len(runs) + 1,
                                  ![h].pc = "fetch"]
  /\ UNCHANGED <<items, claimed, labeled, single_call_vars>>
  /\ UNCHANGED <<engine_vars, label_vars, ctor_vars>>

\* clean.py 76-94: the fetch; without emails the run is completed
CFetch(h) ==
  /\ handlers[h].pc = "fetch"
  /\ \E es \in FetchResults(ConcUser, MaxMsg) :
       IF es = <<>>
       THEN /\ runs' = [runs EXCEPT ![handlers[h].run_id].status = "COMPLETED",
                                    ![handlers[h].run_id].finished = TRUE]
            /\ handlers' = [handlers EXCEPT ![h].http = 200,
                                            ![h].pc = "done"]
       ELSE /\ handlers' = [handlers EXCEPT ![h].emails = es,
                                            ![h].pc = "query"]
            /\ UNCHANGED runs
  /\ UNCHANGED <<items, claimed, labeled, single_call_vars>>
  /\ UNCHANGED <<engine_vars, label_vars, ctor_vars>>

\* clean.py 100-105: the user's items as the session sees them now
CQueryExisting(h) ==
  /\ handlers[h].pc = "query"
  /\ handlers' = [handlers EXCEPT
                    ![h].existing = ExistingGmailIds(items, ConcUser),
                    ![h].pc = "ingest"]
  /\ UNCHANGED <<runs, items, claimed, labeled, single_call_vars>>
  /\ UNCHANGED <<engine_vars, label_vars, ctor_vars>>

\* clean.py 107-131: one EmailItem per email not seen at 100-105; the
\* commit at line 131 fails as a whole when the unique constraint is
\* violated by rows another call committed meanwhile
CIngest(h) ==
  /\ handlers[h].pc = "ingest"
  /\ LET new == NewEmails(handlers[h].emails, handlers[h].existing)
         rows == [k \in 1..Len(new) |->
                    EmailItem(ConcUser, handlers[h].run_id, new[k].id)]
     IN IF UniqueConstraint(items \o rows)
        THEN /\ items' = items \o rows
             /\ handlers' = [handlers EXCEPT
                               ![h].emails_to_process = new,
                               ![h].items_to_process =
                                  [k \in 1..Len(new) |-> Len(items) + k],
                               ![h].pc = "ingested"]
        ELSE /\ handlers' = [handlers EXCEPT ![h].exc = IntegrityError,
                                             ![h].pc = "except"]
             /\ UNCHANGED items
  /\ UNCHANGED <<runs, claimed, labeled, single_call_vars>>
  /\ UNCHANGED <<engine_vars, label_vars, ctor_vars>>

\* clean.py 180-197: nothing new, the run is completed and the rollup
\* returned
CShortCircuit(h) ==
  /\ handlers[h].pc = "ingested"
  /\ handlers[h].emails_to_process = <<>>
  /\ runs' = [runs EXCEPT ![handlers[h].run_id].status = "COMPLETED",
                          ![handlers[h].run_id].finished = TRUE,
                          ![handlers[h].run_id].error = NoneVal]
  /\ handlers' = [handlers EXCEPT ![h].http = 200, ![h].pc = "done"]
  /\ UNCHANGED <<items, claimed, labeled, single_call_vars>>
  /\ UNCHANGED <<engine_vars, label_vars, ctor_vars>>

\* clean.py 199-204
CClaim(h) ==
  /\ handlers[h].pc = "ingested"
  /\ handlers[h].emails_to_process # <<>>
  /\ items' = [i \in DOMAIN items |->
                IF i \in Range(handlers[h].items_to_process)
                THEN ClaimItem(items[i]) ELSE items[i]]
  /\ claimed' = claimed \cup {<<h, items[i].gmail_message_id>> :
                                i \in Range(handlers[h].items_to_process)}
  /\ handlers' = [handlers EXCEPT ![h].pc = "classify"]
  /\ UNCHANGED <<runs, labeled, single_call_vars>>
  /\ UNCHANGED <<engine_vars, label_vars, ctor_vars>>

\* clean.py 210-275: classification, labeling and reconciliation of the
\* first pass
CFirstPass(h) ==
  /\ handlers[h].pc = "classify"
  /\ \E cs \in PipelineClassifications(handlers[h].emails_to_process) :
       \E env \in LabelEnvs(cs) :
         LET res == apply_labels_batch(cs, env)
             msg == IF res.raised THEN res.msg ELSE NoneVal
             labeling_result == LabelingResult(res, cs)
         IN /\ items' = [i \in DOMAIN items |->
                          IF i \in Range(handlers[h].items_to_process)
                          THEN Reconcile(
                                 PersistClassifications(
                                   items[i], cs, "LLM classification error"),
                                 labeling_result, msg)
                          ELSE items[i]]
            /\ labeled' = labeled
                            \cup {<<h, id>> : id \in SuccessIds(res.results)}
            /\ handlers' = [handlers EXCEPT
                              ![h].labeling_error_message = msg,
                              ![h].pc = "retry"]
  /\ UNCHANGED <<runs, claimed, single_call_vars>>
  /\ UNCHANGED <<engine_vars, label_vars, ctor_vars>>

\* clean.py 278-328: the retry pass over the failed items, if any
CRetryPass(h) ==
  /\ handlers[h].pc = "retry"
  /\ LET retry == RetryItems(items, handlers[h].items_to_process)
         retry_emails == RetryEmails(items, retry,
                                     handlers[h].emails_to_process)
     IN IF retry = <<>>
        THEN UNCHANGED <<items, labeled>>
        ELSE \E cs \in PipelineClassifications(retry_emails) :
               \E env \in LabelEnvs(cs) :
                 LET res == apply_labels_batch(cs, env)
                     retry_label_error ==
                       IF res.raised THEN res.msg ELSE NoneVal
                     retry_labeling_result ==
                       IF res.raised
                       THEN [results |-> <<>>, error |-> res.msg]
                       ELSE [results |-> res.results, error |-> NoneVal]
                 IN /\ items' =
                         [i \in DOMAIN items |->
                            IF i \in Range(retry)
                            THEN RetryReconcile(
                                   PersistClassifications(
                                     ClaimItem(items[i]), cs,
                                     "LLM classification error (retry)"),
                                   retry_labeling_result, retry_label_error)
                            ELSE items[i]]
                    /\ labeled' =
                         labeled \cup {<<h, id>> :
                                         id \in SuccessIds(res.results)}
  /\ handlers' = [handlers EXCEPT ![h].pc = "complete"]
  /\ UNCHANGED <<runs, claimed, single_call_vars>>
  /\ UNCHANGED <<engine_vars, label_vars, ctor_vars>>

\* clean.py 330-355: the run is completed and the rollup returned
CComplete(h) ==
  /\ handlers[h].pc = "complete"
  /\ runs' = [runs EXCEPT ![handlers[h].run_id] =
                 CompleteRun(@, handlers[h].labeling_error_message)]
  /\ handlers' = [handlers EXCEPT ![h].http = 200, ![h].pc = "done"]
  /\ UNCHANGED <<items, claimed, labeled, single_call_vars>>
  /\ UNCHANGED <<engine_vars, label_vars, ctor_vars>>

\* clean.py 356-373: the run is marked FAILED and HTTP 500 is raised
CHandleException(h) ==
  /\ handlers[h].pc = "except"
  /\ runs' = [runs EXCEPT ![handlers[h].run_id] = FailRun(@, handlers[h].exc)]
  /\ handlers' = [handlers EXCEPT ![h].http = 500, ![h].pc = "done"]
  /\ UNCHANGED <<items, claimed, labeled, single_call_vars>>
  /\ UNCHANGED <<engine_vars, label_vars, ctor_vars>>

\* clean.py 356-373: the session that failed to flush at line 131 was not
\* rolled back, the commit of line 363 raises and is swallowed at 364-366;
\* HTTP 500 is raised
CHandleExceptionRaises(h) ==
  /\ handlers[h].pc = "except"
  /\ handlers' = [handlers EXCEPT ![h].http = 500, ![h].pc = "done"]
  /\ UNCHANGED <<runs, items, claimed, labeled, single_call_vars>>
  /\ UNCHANGED <<engine_vars, label_vars, ctor_vars>>

NextConcurrent ==
  \E h \in Handlers :
    \/ CCreateRun(h)
    \/ CFetch(h)
    \/ CQueryExisting(h)
    \/ CIngest(h)
    \/ CShortCircuit(h)
    \/ CClaim(h)
    \/ CFirstPass(h)
    \/ CRetryPass(h)
    \/ CComplete(h)
    \/ CHandleException(h)
    \/ CHandleExceptionRaises(h)

\* two start_clean calls of one user over one database
SpecConcurrent == InitConcurrent /\ [][NextConcurrent]_vars

\* the pipeline with a reliable persistence layer
Spec == Init /\ [][Next]_vars

\* the pipeline when the queries of the rollup can fail
NextDbFault == Next \/ RollupRaises
SpecDbFault == Init /\ [][NextDbFault]_vars

CommitError == "OperationalError: could not connect to server"

\* clean.py 67-68: the commit of the PROCESSING status raises; the lines
\* are outside the try block, so the exception leaves the handler
MarkProcessingRaises ==
  /\ pc = "created"
  /\ exc' = CommitError
  /\ response' = [Response(500, "error", {"detail"}) EXCEPT
                    !.detail = "Internal Server Error"]
  /\ pc' = "idle"
  /\ UNCHANGED <<runs, items, request, run_id, emails, emails_to_process,
                 items_to_process, classifications, labeling_error_message,
                 retry_items, retry_classifications, ncalls, engine_calls,
                 items_at_start>>
  /\ UNCHANGED <<engine_vars, label_vars, ctor_vars, conc_vars>>

\* clean.py 363-364: what the commit of the FAILED status raises
SecondaryError == "OperationalError: database is locked"

\* variant: the exception of line 363 is not caught and replaces the first
FailRunRaises_Masked ==
  /\ pc = "except"
  /\ response' = [Response(500, "error", {"detail"}) EXCEPT
                    !.detail = "Failed to process emails: " \o SecondaryError]
  /\ pc' = "idle"
  /\ UNCHANGED <<runs, items, request, run_id, emails, emails_to_process,
                 items_to_process, classifications, labeling_error_message,
                 retry_items, retry_classifications, exc, ncalls,
                 engine_calls, items_at_start>>
  /\ UNCHANGED <<engine_vars, label_vars, ctor_vars, conc_vars>>

\* clean.py 356-373: the commit of the FAILED status raises at line 363 and
\* is swallowed at 364-366; HTTP 500 carries the first exception
FailRunRaises ==
  /\ pc = "except"
  /\ response' = [Response(500, "error", {"detail"}) EXCEPT
                    !.detail = "Failed to process emails: " \o exc]
  /\ pc' = "idle"
  /\ UNCHANGED <<runs, items, request, run_id, emails, emails_to_process,
                 items_to_process, classifications, labeling_error_message,
                 retry_items, retry_classifications, exc, ncalls,
                 engine_calls, items_at_start>>
  /\ UNCHANGED <<engine_vars, label_vars, ctor_vars, conc_vars>>

\* clean.py 210-224: the commit of the classification results raises (the
\* database is unreachable, or an outcome's confidence or reason is a JSON
\* value the column cannot bind); the claim of line 204 stays committed
PersistRaises ==
  /\ pc = "classify"
  /\ \E cs \in PipelineClassifications(emails_to_process) :
       /\ classifications' = cs
       /\ engine_calls' = Append(engine_calls,
                                 EngineCall("classify",
                                            IdsOf(emails_to_process), FALSE,
                                            cs))
  /\ exc' = CommitError
  /\ pc' = "except"
  /\ UNCHANGED <<runs, items, request, run_id, emails, emails_to_process,
                 items_to_process, labeling_error_message, retry_items,
                 retry_classifications, response, ncalls, items_at_start>>
  /\ UNCHANGED <<engine_vars, label_vars, ctor_vars, conc_vars>>

\* the pipeline when the commit of the classification results can fail
NextPersistFault == Next \/ PersistRaises
SpecPersistFault == Init /\ [][NextPersistFault]_vars

\* the pipeline when any of these database operations can fail
NextCommitFault == NextDbFault \/ MarkProcessingRaises \/ FailRunRaises
SpecCommitFault == Init /\ [][NextCommitFault]_vars

(* ============================ properties ============================== *)
\* the item that tracked message m for user uid when the request began
TrackedAtStart(uid, m) ==
  \E i \in DOMAIN items_at_start :
    /\ items_at_start[i].user_id = uid
    /\ items_at_start[i].gmail_message_id = m

\* the k-th labeling call of the current request (0: there is none)
LabelCallIndex(k) ==
  LET idx == {j \in DOMAIN engine_calls : engine_calls[j].engine = "label"}
  IN IF Cardinality(idx) < k THEN 0
     ELSE CHOOSE j \in idx : Cardinality({h \in idx : h <= j}) = k

\* C1: there is at most one item per (user, remote message id), and a clean
\* call never tries to insert an item for a message that is already
\* tracked for the user: the ingest commit is never rejected by the
\* unique constraint, and the items it adds are for untracked messages.
C1_OneItemPerUserMessage ==
  /\ UniqueConstraint(items)
  /\ exc # IntegrityError
  /\ \A i \in DOMAIN items :
       i > Len(items_at_start)
         => ~TrackedAtStart(items[i].user_id, items[i].gmail_message_id)

\* a second run fetched a message that an earlier run left FAILED, together
\* with a new one, and has ingested
C1_Witness ==
  /\ pc = "ingested"
  /\ Len(items) > Len(items_at_start)
  /\ \E k \in DOMAIN emails : \E i \in DOMAIN items_at_start :
       /\ items_at_start[i].user_id = UserId
       /\ items_at_start[i].gmail_message_id = emails[k].id
       /\ items_at_start[i].status = "FAILED"
       /\ items_at_start[i].run_id # run_id

\* C2: in a returned rollup every fetched message occurs exactly once in
\* emails and exactly once in classifications, new or tracked before.
C2_RollupCoversFetchedOnce ==
  (response.http = 200 /\ response.status = "completed")
    => \A k \in DOMAIN emails :
         /\ Cardinality({j \in DOMAIN response.emails :
                           response.emails[j].id = emails[k].id}) = 1
         /\ Cardinality({j \in DOMAIN response.classifications :
                           response.classifications[j].email_id
                             = emails[k].id}) = 1

\* a rollup over one message tracked by an earlier run and one new message
C2_Witness ==
  /\ response.http = 200 /\ response.status = "completed"
  /\ emails_to_process # <<>>
  /\ Len(emails_to_process) < Len(emails)
  /\ Len(response.classifications) = Len(emails)

\* every fetched message was tracked for the user when the request began
AllFetchedTracked ==
  /\ run_id # 0
  /\ emails # <<>>
  /\ \A k \in DOMAIN emails : TrackedAtStart(UserId, emails[k].id)

\* C3: when every fetched message is already tracked for the user, the call
\* creates no item, calls neither engine, completes the run and answers
\* with status "completed".
C3_Idempotent ==
  AllFetchedTracked
    => /\ items = items_at_start
       /\ engine_calls = <<>>
       /\ pc \in {"ingest", "ingested", "rollup", "idle"}
       /\ pc \in {"rollup", "idle"} => runs[run_id].status = "COMPLETED"
       /\ pc = "idle" => /\ response.http = 200
                         /\ response.status = "completed"
                         /\ response.run_id = run_id

\* the second of two calls over the same inbox has returned; the first call
\* left a FAILED item
C3_Witness ==
  /\ AllFetchedTracked
  /\ pc = "idle"
  /\ response.status = "completed"
  /\ \E i \in DOMAIN items : items[i].user_id = UserId
                             /\ items[i].status = "FAILED"

\* C4: no item's attempt_count exceeds 2; an item of the retry pass has
\* attempt_count 2; an item that succeeded in the first pass has 1.
C4_AttemptCount ==
  /\ \A i \in DOMAIN items : items[i].attempt_count <= 2
  /\ \A i \in Range(retry_items) : items[i].attempt_count = 2
  /\ \A i \in Range(items_to_process) \ Range(retry_items) :
       items[i].status = "SUCCESS" => items[i].attempt_count = 1

\* one item succeeded in the first pass, another went through the retry pass
C4_Witness ==
  /\ pc = "complete"
  /\ retry_items # <<>>
  /\ \E i \in Range(items_to_process) \ Range(retry_items) :
       items[i].status = "SUCCESS" /\ items[i].attempt_count = 1
  /\ \E i \in Range(retry_items) : items[i].attempt_count = 2

\* the steps a run's status may take
RunStep(a, b) ==
  \/ a = b
  \/ a = "NEW" /\ b = "PROCESSING"
  \/ a = "PROCESSING" /\ b \in {"COMPLETED", "FAILED"}

\* C5: a run's status only moves NEW -> PROCESSING -> (COMPLETED | FAILED);
\* a COMPLETED or FAILED run never changes status again.
C5_RunStatusMonotonic ==
  [][\A r \in DOMAIN runs : RunStep(runs[r].status, runs'[r].status)]_vars

\* all bulk-modify calls of a labeling call threw: the call returned, and
\* each of its per-item results is a failure carrying the thrown text
AllChunksThrew(call) ==
  /\ call.engine = "label"
  /\ ~call.raised
  /\ call.results # <<>>
  /\ \A j \in DOMAIN call.results :
       ~call.results[j].success /\ call.results[j].error = ModifyError

\* C6: when all bulk-modify calls throw in the first pass every claimed item
\* is FAILED with attempt_count 1 after reconciliation and is retried; when
\* they throw again in the retry the items end FAILED with attempt_count 2
\* and the run ends COMPLETED with its error set to the labeling error text.
C6_BulkModifyThrows ==
  /\ (pc = "retry" /\ LabelCallIndex(1) # 0
        /\ AllChunksThrew(engine_calls[LabelCallIndex(1)]))
       => /\ \A i \in Range(items_to_process) :
               items[i].status = "FAILED" /\ items[i].attempt_count = 1
          /\ RetryItems(items, items_to_process) = items_to_process
  /\ (pc \in {"rollup", "idle"} /\ LabelCallIndex(2) # 0
        /\ AllChunksThrew(engine_calls[LabelCallIndex(1)])
        /\ AllChunksThrew(engine_calls[LabelCallIndex(2)]))
       => /\ \A i \in Range(items_to_process) :
               items[i].status = "FAILED" /\ items[i].attempt_count = 2
          /\ runs[run_id].status = "COMPLETED"
          /\ runs[run_id].error = ModifyError

\* the first labeling call of the request raised
FirstLabelRaised ==
  LabelCallIndex(1) # 0 /\ engine_calls[LabelCallIndex(1)].raised

\* the classification of message m in the list cs
ClassificationOf(cs, m) ==
  cs[CHOOSE j \in DOMAIN cs : cs[j].email_id = m]

\* item it carries the category, confidence and reason of c
Keeps(it, c) ==
  /\ it.category = c.category
  /\ it.confidence = c.confidence
  /\ it.reason = c.reason

\* C7: when the labeling call raises, the exception is not propagated: every
\* claimed item is FAILED with last_error the raised text and keeps the
\* category, confidence and reason of its classification; the run does not
\* become FAILED and the caller receives a rollup with the classifications.
C7_LabelRaiseContained ==
  /\ FirstLabelRaised
       => /\ exc = NoneVal /\ pc # "except"
          /\ runs[run_id].status # "FAILED"
          /\ labeling_error_message = "Failed to get Gmail service for labeling"
  /\ (FirstLabelRaised /\ pc = "retry")
       => \A i \in Range(items_to_process) :
            /\ items[i].status = "FAILED"
            /\ items[i].last_error = "Failed to get Gmail service for labeling"
            /\ Keeps(items[i],
                     ClassificationOf(classifications,
                                      items[i].gmail_message_id))
  /\ (pc = "complete" /\ LabelCallIndex(2) # 0
        /\ engine_calls[LabelCallIndex(2)].raised)
       => \A i \in Range(retry_items) :
            /\ items[i].status = "FAILED"
            /\ items[i].last_error = "Failed to get Gmail service for labeling"
            /\ Keeps(items[i],
                     ClassificationOf(retry_classifications,
                                      items[i].gmail_message_id))
  /\ (FirstLabelRaised /\ pc = "idle")
       => /\ response.http = 200
          /\ runs[run_id].status = "COMPLETED"
          /\ \A i \in Range(items_to_process) :
               \E j \in DOMAIN response.classifications :
                 /\ response.classifications[j].email_id
                      = items[i].gmail_message_id
                 /\ response.classifications[j].category = items[i].category
                 /\ items[i].category \in CATEGORIES \cup {"ERROR"}

\* both labeling calls raised and the caller has the rollup with a
\* classified message
C7_Witness ==
  /\ pc = "idle"
  /\ FirstLabelRaised
  /\ LabelCallIndex(2) # 0 /\ engine_calls[LabelCallIndex(2)].raised
  /\ response.http = 200
  /\ \E j \in DOMAIN response.classifications :
       response.classifications[j].category = "MARKETING"

\* C8: a run ends FAILED only if an exception escaped the steps of the
\* pipeline; with no such exception it ends COMPLETED whatever mix of
\* SUCCESS and FAILED items it leaves.
C8_OnlyExceptionsFailRun ==
  /\ (run_id # 0 /\ runs[run_id].status = "FAILED") => exc # NoneVal
  /\ (pc = "idle" /\ run_id # 0)
       => /\ runs[run_id].status \in {"COMPLETED", "FAILED"}
          /\ exc = NoneVal => runs[run_id].status = "COMPLETED"
          /\ exc # NoneVal => runs[run_id].status = "FAILED"

\* a run completed with one SUCCESS and one FAILED item
C8_Witness ==
  /\ pc = "idle" /\ run_id # 0
  /\ exc = NoneVal
  /\ runs[run_id].status = "COMPLETED"
  /\ \E i, j \in Range(items_to_process) :
       items[i].status = "FAILED" /\ items[j].status = "SUCCESS"

\* C9: when the fetch raises, the run is marked FAILED with the error text,
\* no item is created, no engine is called, and the caller gets an error
\* that carries the text instead of a rollup.
C9_FetchFailure ==
  (run_id # 0 /\ exc \in FetchErrors)
    => /\ items = items_at_start
       /\ engine_calls = <<>>
       /\ pc \in {"except", "idle"}
       /\ pc = "idle"
            => /\ runs[run_id].status = "FAILED"
               /\ runs[run_id].error = exc
               /\ response.http = 500
               /\ response.detail = "Failed to process emails: " \o exc
               /\ response.keys = {"detail"}

\* the fetch of a second run raised and the error was returned
C9_Witness ==
  /\ pc = "idle"
  /\ exc \in FetchErrors
  /\ run_id = 2
  /\ items_at_start # <<>>
  /\ response.http = 500

\* C10: classify_emails_batch returns as many outcomes as it was given
\* emails, exactly one per email id, each with a category of the taxonomy
\* or ERROR, whatever the oracle does.
C10_ClassifyTotal ==
  cl_pc = "returned"
    => /\ Len(all_classifications) = Len(cl_emails)
       /\ \A k \in DOMAIN cl_emails :
            Cardinality({j \in DOMAIN all_classifications :
                           all_classifications[j].email_id = cl_emails[k].id})
              = 1
       /\ \A j \in DOMAIN all_classifications :
            all_classifications[j].category \in CATEGORIES \cup {"ERROR"}

\* two sub-batches returned: one held a padded outcome, the other failed
C10_Witness ==
  /\ cl_pc = "returned"
  /\ Len(cl_emails) > batch_size
  /\ \E j \in DOMAIN all_classifications :
       all_classifications[j].reason
         = "LLM did not return classification for this email"
  /\ \E j \in DOMAIN all_classifications :
       all_classifications[j].category = "ERROR"

\* the oracle call of sub-batch b failed for good: another exception, or a
\* rate limit at the last attempt
FailedIrrecoverably(b) ==
  \/ cl_final[b].kind = "error"
  \/ cl_final[b].kind = "rate_limit" /\ cl_attempt[b] = max_retries

\* the returned outcomes of the emails of sub-batch b, in the order returned
OutcomesOfBatch(b) ==
  SelectSeq(all_classifications,
            LAMBDA c : c.email_id \in Range(IdsOf(cl_batches[b])))

\* C11: when the oracle call of a sub-batch fails for good, each of its
\* emails gets category ERROR with confidence 0, the call still returns,
\* and every other sub-batch's outcomes are those its own oracle answer
\* gives, whatever happened to the failing one.
C11_SubBatchIsolation ==
  cl_pc = "returned"
    => \A b \in DOMAIN cl_state :
         /\ FailedIrrecoverably(b)
              => /\ Len(OutcomesOfBatch(b)) = Len(cl_batches[b])
                 /\ \A j \in DOMAIN OutcomesOfBatch(b) :
                      /\ OutcomesOfBatch(b)[j].category = "ERROR"
                      /\ OutcomesOfBatch(b)[j].confidence = 0
         /\ ~FailedIrrecoverably(b)
              => /\ cl_final[b].kind = "content"
                 /\ OutcomesOfBatch(b)
                      = ResultsOfCall(cl_batches[b],
                                      [raised |-> FALSE, msg |-> "",
                                       out |-> cl_final[b]])

\* the first sub-batch hit the rate limit three times, the second was
\* classified; and the other way round with another exception
C11_Witness ==
  /\ cl_pc = "returned"
  /\ Len(cl_batches) = 2
  /\ cl_final[1].kind = "rate_limit" /\ cl_attempt[1] = max_retries
  /\ cl_final[2].kind = "content"
  /\ OutcomesOfBatch(2)[1].category = "MARKETING"

\* C12: when the fetch returns no message the run ends COMPLETED, the
\* answer has status "no_emails" with empty emails and classifications, no
\* item is created and no engine is called.
C12_NoEmails ==
  (pc = "idle" /\ run_id # 0 /\ exc = NoneVal /\ emails = <<>>)
    => /\ runs[run_id].status = "COMPLETED"
       /\ response.http = 200
       /\ response.status = "no_emails"
       /\ response.emails = <<>>
       /\ response.classifications = <<>>
       /\ response.actual_count = 0
       /\ items = items_at_start
       /\ engine_calls = <<>>

\* an empty fetch was answered while the user already has tracked items
C12_Witness ==
  /\ pc = "idle" /\ run_id # 0 /\ exc = NoneVal /\ emails = <<>>
  /\ response.status = "no_emails"
  /\ \E i \in DOMAIN items : items[i].user_id = UserId

\* C13: a request with an unknown user or a count outside [1,100] is
\* rejected before a run row exists: the runs and items are unchanged and
\* no engine is called; every run row belongs to a registered user and
\* holds a count within [1,100].
C13_RejectedBeforeRun ==
  /\ [][(pc = "idle" /\ pc' = "idle" /\ response'.http \in {404, 422})
          => (runs' = runs /\ items' = items /\ engine_calls' = <<>>
                /\ run_id' = 0)]_vars
  /\ [](\A r \in DOMAIN runs :
          /\ runs[r].user_id \in {UserIdOf(e) : e \in UserEmails}
          /\ runs[r].requested_count >= 1
          /\ runs[r].requested_count <= 100)

\* an unknown user was turned away after an earlier run had left rows
C13_Witness ==
  /\ pc = "idle"
  /\ response.http = 404
  /\ runs # <<>> /\ items # <<>>

\* C14: a clean invocation leaves the items of earlier runs as they were,
\* and passes none of their messages to classification or labeling.
C14_EarlierItemsUntouched ==
  /\ Len(items) >= Len(items_at_start)
  /\ \A i \in DOMAIN items_at_start : items[i] = items_at_start[i]
  /\ \A k \in DOMAIN engine_calls : \A j \in DOMAIN engine_calls[k].ids :
       ~TrackedAtStart(UserId, engine_calls[k].ids[j])

\* the second run of a user finished its retry pass next to a FAILED item
\* of the first run
C14_Witness ==
  /\ pc = "complete"
  /\ retry_items # <<>>
  /\ \E i \in DOMAIN items_at_start :
       /\ items_at_start[i].user_id = UserId
       /\ items_at_start[i].status = "FAILED"
  /\ \E k \in DOMAIN emails : TrackedAtStart(UserId, emails[k].id)

\* all fetched messages were new, classified without ERROR and labeled in
\* the first pass
HappyPath ==
  /\ run_id # 0
  /\ emails # <<>>
  /\ \A k \in DOMAIN emails : ~TrackedAtStart(UserId, emails[k].id)
  /\ Len(engine_calls) >= 2
  /\ engine_calls[1].engine = "classify"
  /\ \A j \in DOMAIN engine_calls[1].results :
       engine_calls[1].results[j].category # "ERROR"
  /\ engine_calls[2].engine = "label"
  /\ ~engine_calls[2].raised
  /\ \A j \in DOMAIN engine_calls[2].results :
       engine_calls[2].results[j].success

\* C15: on the happy path the run ends COMPLETED without error, every new
\* item is SUCCESS with attempt_count 1, there is no retry pass, and the
\* summary counts, per category, the fetched messages classified into it.
C15_HappyPath ==
  (HappyPath /\ pc = "idle")
    => /\ runs[run_id].status = "COMPLETED"
       /\ runs[run_id].error = NoneVal
       /\ Len(engine_calls) = 2
       /\ retry_items = <<>>
       /\ Len(items) = Len(items_at_start) + Len(emails)
       /\ \A i \in DOMAIN items :
            i > Len(items_at_start)
              => items[i].status = "SUCCESS" /\ items[i].attempt_count = 1
       /\ response.http = 200
       /\ DOMAIN response.summary = CATEGORIES \cup {"ERROR"}
       /\ \A cat \in DOMAIN response.summary :
            response.summary[cat]
              = Cardinality({j \in DOMAIN engine_calls[1].results :
                               engine_calls[1].results[j].category = cat})

\* two new messages were both classified MARKETING and labeled
C15_Witness ==
  /\ HappyPath /\ pc = "idle"
  /\ response.http = 200
  /\ response.summary["MARKETING"] = 2

\* C16: every invocation that passes validation creates one run row that
\* records the requested count, and every item it creates starts with
\* attempt_count 0: the constructor calls of lines 62 and 119-126 build
\* their rows with the attributes they are given.
C16_RunAndItemsCreated ==
  (ctor_pc = "done"
     /\ \/ ctor_cls = "EmailRun" /\ ctor_kwargs = RunKwargs
        \/ ctor_cls = "EmailItem" /\ ctor_kwargs = ItemKwargs)
    => /\ ~ctor_result.raised
       /\ ctor_cls = "EmailRun" => "requested_count" \in ctor_result.instance
       /\ ctor_cls = "EmailItem" => "attempt_count" \in ctor_result.instance

\* C18: attempt_count is a persisted attribute of an item (which each claim
\* increases by 1 and nothing resets): an item can be built with it and
\* the class stores it.
C18_AttemptCountPersisted ==
  (ctor_pc = "done" /\ ctor_cls = "EmailItem"
     /\ "attempt_count" \in ctor_kwargs)
    => "attempt_count" \in ctor_result.instance

\* C17: the labeling outcome has exactly one per-item result for every
\* classification that carries an id, and success_count + failed_count =
\* total = the number of results, success_count being the number of
\* results marked successful.
C17_LabelOutcomeConsistent ==
  (lb_pc = "done" /\ ~lb_result.raised)
    => /\ \A k \in DOMAIN lb_classifications :
            HasId(lb_classifications[k].email_id)
              => Cardinality({j \in DOMAIN lb_result.results :
                                lb_result.results[j].email_id
                                  = lb_classifications[k].email_id}) = 1
       /\ Len(lb_result.results)
            = Cardinality({k \in DOMAIN lb_classifications :
                             HasId(lb_classifications[k].email_id)})
       /\ lb_result.total = Len(lb_result.results)
       /\ lb_result.success_count + lb_result.failed_count = lb_result.total
       /\ lb_result.success_count
            = Cardinality({j \in DOMAIN lb_result.results :
                             lb_result.results[j].success})

\* a call with a classification without id, a label that was labeled and a
\* label whose bulk-modify threw
C17_Witness ==
  /\ lb_pc = "done" /\ ~lb_result.raised
  /\ \E k \in DOMAIN lb_classifications :
       ~HasId(lb_classifications[k].email_id)
  /\ lb_result.success_count = 1
  /\ lb_result.failed_count = 1
  /\ \E j \in DOMAIN lb_result.results :
       lb_result.results[j].error = ModifyError

\* C19: once an invocation that created a run has returned or raised, the
\* run is COMPLETED or FAILED, also when persisting the run or recording
\* the failure raised.
C19_RunEndsTerminal ==
  pc = "idle"
    => \A r \in DOMAIN runs : runs[r].status \in {"COMPLETED", "FAILED"}

\* the messages the first labeling call of the request marked successful
FirstLabelSuccessIds ==
  SuccessIds(engine_calls[LabelCallIndex(1)].results)

\* C20: after the first-pass reconciliation every claimed item is SUCCESS
\* if the labeling outcome marks it successful and FAILED otherwise, also
\* when the outcome has no result for it or the labeling call failed as a
\* whole; none is left PROCESSING.
C20_ReconciliationTotal ==
  pc = "retry"
    => /\ LabelCallIndex(1) # 0
       /\ \A i \in Range(items_to_process) :
            /\ items[i].gmail_message_id \in FirstLabelSuccessIds
                 => items[i].status = "SUCCESS"
            /\ items[i].gmail_message_id \notin FirstLabelSuccessIds
                 => items[i].status = "FAILED"

\* one claimed item was labeled and the bulk-modify of the other threw
C20_Witness ==
  /\ pc = "retry"
  /\ ~engine_calls[LabelCallIndex(1)].raised
  /\ \E i, j \in Range(items_to_process) :
       items[i].status = "SUCCESS" /\ items[j].status = "FAILED"

\* the messages of the first pass that its labeling call did not mark
\* successful, in the order of the first pass
FirstPassFailedIds ==
  SelectSeq(IdsOf(emails_to_process),
            LAMBDA m : m \notin FirstLabelSuccessIds)

\* the calls of the current request to one engine that were given message m
CallsWith(engine, m) ==
  {k \in DOMAIN engine_calls :
     engine_calls[k].engine = engine /\ m \in Range(engine_calls[k].ids)}

\* C21: the retry pass classifies and labels exactly the items that were
\* FAILED (with attempt_count < 2) after the first-pass reconciliation; an
\* item that was SUCCESS after the first pass is not given to an engine
\* again and keeps its status, category and attempt_count; there is one
\* retry pass at most, so no item is classified or labeled more than twice.
C21_RetryExactlyFailed ==
  /\ Len(engine_calls) <= 4
  /\ \A k \in DOMAIN engine_calls :
       k > 2 => /\ engine_calls[k].ids = FirstPassFailedIds
                /\ engine_calls[k].ids # <<>>
                /\ engine_calls[k].engine = engine_calls[k - 2].engine
  /\ pc \in {"retry_classify", "retry_label"}
       => [k \in DOMAIN retry_items |-> items[retry_items[k]].gmail_message_id]
            = FirstPassFailedIds
  /\ (pc \in {"complete", "rollup"} /\ LabelCallIndex(1) # 0
        /\ FirstPassFailedIds # <<>>)
       => Len(engine_calls) = 4
  /\ LabelCallIndex(1) # 0
       => \A i \in Range(items_to_process) :
            LET m == items[i].gmail_message_id
            IN /\ Cardinality(CallsWith("classify", m)) <= 2
               /\ Cardinality(CallsWith("label", m)) <= 2
               /\ m \in FirstLabelSuccessIds
                    => /\ items[i].status = "SUCCESS"
                       /\ items[i].attempt_count = 1
                       /\ items[i].category
                            = ClassificationOf(classifications, m).category
                       /\ Cardinality(CallsWith("classify", m)) = 1
                       /\ Cardinality(CallsWith("label", m)) = 1

\* one item succeeded in the first pass, the other went through the retry
C21_Witness ==
  /\ pc = "complete"
  /\ Len(engine_calls) = 4
  /\ Len(items_to_process) = 2
  /\ Len(engine_calls[3].ids) = 1
  /\ \E i \in Range(items_to_process) :
       items[i].status = "SUCCESS" /\ items[i].attempt_count = 1
  /\ \E i \in Range(items_to_process) : items[i].attempt_count = 2

\* the status changes an item may make; a re-claim needs attempt_count < 2
AllowedItemStep(old, new) ==
  \/ old.status = "NEW" /\ new.status = "PROCESSING"
  \/ old.status = "PROCESSING" /\ new.status \in {"SUCCESS", "FAILED"}
  \/ /\ old.status = "FAILED" /\ new.status = "PROCESSING"
     /\ old.attempt_count < MaxAttempts

\* C22: every change of an item's status is NEW->PROCESSING,
\* PROCESSING->SUCCESS, PROCESSING->FAILED, or FAILED->PROCESSING with
\* attempt_count < 2 before the re-claim; a SUCCESS item never changes
\* status and no item goes from NEW to SUCCESS or FAILED.
C22_ItemTransitions ==
  [][\A i \in DOMAIN items :
       /\ i \in DOMAIN items'
       /\ items'[i].status # items[i].status
            => AllowedItemStep(items[i], items'[i])]_vars

\* an item failed in the first pass and has been claimed again
C22_Witness ==
  /\ pc = "retry_classify"
  /\ \E i \in Range(retry_items) :
       items[i].status = "PROCESSING" /\ items[i].attempt_count = 2
  /\ \E i \in Range(items_to_process) : items[i].status = "SUCCESS"

SomeLabelRaised ==
  \E k \in DOMAIN engine_calls :
    engine_calls[k].engine = "label" /\ engine_calls[k].raised

\* C24: a COMPLETED run carries the non-fatal labeling error: when the
\* labeling call raised in the first pass or in the retry pass, the run's
\* error field is not empty at completion and holds the raised text.
C24_RunCarriesLabelError ==
  (pc \in {"rollup", "idle"} /\ run_id # 0
     /\ runs[run_id].status = "COMPLETED" /\ SomeLabelRaised)
    => /\ Truthy(runs[run_id].error)
       /\ runs[run_id].error = "Failed to get Gmail service for labeling"

\* C25: when an exception escapes the pipeline and marking the run FAILED
\* fails too, the second failure is swallowed: the caller receives HTTP 500
\* with the text of the first exception, never that of the second.
C25_OriginalErrorSurfaces ==
  [][(pc = "except" /\ pc' = "idle")
       => /\ response'.http = 500
          /\ response'.keys = {"detail"}
          /\ response'.detail = "Failed to process emails: " \o exc
          /\ response'.detail # "Failed to process emails: " \o SecondaryError
          /\ exc' = exc]_vars

\* the fetch raised and the commit of the FAILED status raised as well
C25_Witness ==
  /\ pc = "idle"
  /\ run_id # 0
  /\ runs[run_id].status = "PROCESSING"
  /\ exc \in FetchErrors
  /\ response.http = 500
  /\ response.detail = "Failed to process emails: " \o exc

\* this step calls an engine
CallsEngine(engine) ==
  /\ Len(engine_calls') = Len(engine_calls) + 1
  /\ engine_calls'[Len(engine_calls')].engine = engine

\* this step moves item i from one status to another
ItemGoes(i, from, to) ==
  /\ i \in DOMAIN items
  /\ items[i].status \in from
  /\ items'[i].status \in to

\* C26: the steps of a run are ordered: the run is PROCESSING when the fetch
\* is issued; an item is claimed after it was ingested, classified after it
\* was claimed, labeled after it was classified and reconciled after the
\* labeling call; the retry pass starts when every item of the first pass
\* has been reconciled.
C26_StepsOrdered ==
  [][/\ (pc = "fetch" /\ pc' # "fetch")
          => runs[run_id].status = "PROCESSING"
     /\ \A i \in DOMAIN items' :
          ItemGoes(i, {"NEW"}, {"PROCESSING"})
            => /\ i \in Range(items_to_process)
               /\ items[i].run_id = run_id
               /\ engine_calls = <<>>
     /\ CallsEngine("classify")
          => /\ Len(engine_calls) \in {0, 2}
             /\ \A i \in Range(items_to_process) :
                  items[i].gmail_message_id
                      \in Range(engine_calls'[Len(engine_calls')].ids)
                    => /\ items[i].status = "PROCESSING"
                       /\ items[i].attempt_count
                            = 1 + Len(engine_calls) \div 2
     /\ CallsEngine("label")
          => /\ engine_calls # <<>>
             /\ engine_calls[Len(engine_calls)].engine = "classify"
             /\ engine_calls[Len(engine_calls)].ids
                  = engine_calls'[Len(engine_calls')].ids
     /\ \A i \in DOMAIN items' :
          ItemGoes(i, {"NEW", "PROCESSING"}, {"SUCCESS", "FAILED"})
            => /\ items[i].status = "PROCESSING"
               /\ CallsEngine("label")
               /\ items[i].gmail_message_id
                    \in Range(engine_calls'[Len(engine_calls')].ids)
     /\ \A i \in DOMAIN items' :
          ItemGoes(i, {"FAILED"}, {"PROCESSING"})
            => /\ Len(engine_calls) = 2
               /\ \A j \in Range(items_to_process) :
                    items[j].status \in {"SUCCESS", "FAILED"}]_vars

\* the retry pass has classified and is about to label
C26_Witness ==
  /\ pc = "retry_label"
  /\ Len(engine_calls) = 3
  /\ runs[run_id].status = "PROCESSING"
  /\ \E i \in Range(retry_items) :
       items[i].status = "PROCESSING" /\ items[i].attempt_count = 2

\* the sleeps that precede the (n+1)-th oracle call of a sub-batch
BackoffWaits(n) == [k \in 1..n |-> 20 * k]

\* every outcome of sub-batch b is an ERROR outcome for its own email
AllError(b) ==
  /\ Len(cl_results[b]) = Len(cl_batches[b])
  /\ \A j \in DOMAIN cl_results[b] :
       /\ cl_results[b][j].category = "ERROR"
       /\ cl_results[b][j].email_id = cl_batches[b][j].id

\* C27: the rate-limit retry is bounded: the oracle is called at most 3
\* times for a sub-batch; a call is repeated only after a rate-limit
\* failure and after a wait of 20s x (calls made so far), there is no wait
\* after the third failure and no retry of another failure; after the
\* third rate-limit failure that sub-batch, and only it, gets ERROR
\* outcomes.
C27_RateLimitRetryBounded ==
  \A b \in DOMAIN cl_state :
    LET n == Len(cl_outcomes[b])
        ended == cl_state[b] \in {"finished", "collected"}
    IN /\ n = cl_attempt[b]
       /\ n <= 3
       /\ \A k \in 1..(n - 1) : cl_outcomes[b][k] = "rate_limit"
       /\ ~ended => /\ \A k \in 1..n : cl_outcomes[b][k] = "rate_limit"
                    /\ n < 3
                    /\ cl_waits[b] = BackoffWaits(n)
       /\ ended => /\ cl_waits[b] = BackoffWaits(n - 1)
                   /\ cl_outcomes[b][n] = "rate_limit"
                        => n = 3 /\ AllError(b)
                   /\ cl_outcomes[b][n] = "error" => AllError(b)
                   /\ (cl_outcomes[b][n] = "content"
                         /\ cl_final[b].shape = "array"
                         /\ \A j \in DOMAIN cl_final[b].records :
                              cl_final[b].records[j].hashable)
                        => \A j \in DOMAIN cl_results[b] :
                             cl_results[b][j].category # "ERROR"

\* the first sub-batch was rate-limited three times and waited 20s and 40s;
\* the second was answered at its first call
C27_Witness ==
  /\ cl_pc = "returned"
  /\ Len(cl_state) = 2
  /\ cl_outcomes[1] = <<"rate_limit", "rate_limit", "rate_limit">>
  /\ cl_waits[1] = <<20, 40>>
  /\ AllError(1)
  /\ cl_outcomes[2] = <<"content">>
  /\ cl_results[2][1].category = "MARKETING"

\* sub-batch b ended with a response that parsed to a list
ParsedList(b) ==
  /\ cl_state[b] \in {"finished", "collected"}
  /\ cl_final[b].kind = "content"
  /\ cl_final[b].shape \in {"array", "fenced", "wrapped"}

\* a returned record lacks a required field or names no known category
NeedsCoercion(r) ==
  \/ ~r.isdict
  \/ {"category", "confidence", "reason"} \ r.keys # {}
  \/ r.category \notin CATEGORIES

\* C28: an oracle record that lacks a required field (category, confidence
\* or reason) or whose category is outside the taxonomy is coerced to the
\* fallback: its outcome has category UNKNOWN and confidence 0.
C28_CoercedToFallback ==
  \A b \in DOMAIN cl_state :
    ParsedList(b)
      => \A j \in DOMAIN cl_final[b].records :
           (j <= Len(cl_batches[b]) /\ NeedsCoercion(cl_final[b].records[j]))
             => /\ cl_results[b][j].category = "UNKNOWN"
                /\ cl_results[b][j].confidence = 0

\* C29: when the oracle returns k records for a sub-batch of n items,
\* record j is attributed to the j-th item for j < min(k, n); for k < n the
\* items at positions k..n-1 get a padded outcome with category UNKNOWN and
\* confidence 0; for k > n the surplus records are discarded.
C29_AttributedByPosition ==
  \A b \in DOMAIN cl_state :
    ParsedList(b)
      => LET recs == cl_final[b].records
             k == Len(recs)
             n == Len(cl_batches[b])
         IN /\ Len(cl_results[b]) = n
            /\ \A j \in 1..n :
                 /\ cl_results[b][j].email_id = cl_batches[b][j].id
                 /\ (j <= k /\ ~NeedsCoercion(recs[j]))
                      => /\ cl_results[b][j].category = recs[j].category
                         /\ cl_results[b][j].confidence = recs[j].confidence
                 /\ (j <= k /\ NeedsCoercion(recs[j]))
                      => cl_results[b][j].category # "ERROR"
                 /\ j > k
                      => /\ cl_results[b][j].category = "UNKNOWN"
                         /\ cl_results[b][j].confidence = 0

\* the sub-batch calls whose oracle call is in flight
InFlight == {b \in DOMAIN cl_state : cl_state[b] = "running"}

PersistedFor(m) ==
  PersistClassifications(ClaimItem(EmailItem(1, 1, m)), all_classifications,
                         "LLM classification error")

\* C31: outcomes are matched to items by identity, not by position: in
\* whatever order the sub-batch workers complete, classify returns the same
\* set of outcomes, and the category, confidence and reason persisted on a
\* claimed item are those of the outcome that carries the item's remote id.
C31_MatchedByIdentity ==
  cl_pc = "returned"
    => /\ Range(all_classifications) = Range(Flatten(cl_results))
       /\ Len(all_classifications) = Len(Flatten(cl_results))
       /\ \A b \in DOMAIN cl_batches :
            \A j \in DOMAIN cl_batches[b] :
              /\ cl_results[b][j].email_id = cl_batches[b][j].id
              /\ Keeps(PersistedFor(cl_batches[b][j].id), cl_results[b][j])

\* the second sub-batch was collected before the first, with another category
C31_Witness ==
  /\ cl_pc = "returned"
  /\ Len(cl_emails) = 21
  /\ all_classifications[1].email_id = 21
  /\ all_classifications[1].category # all_classifications[2].category
  /\ all_classifications # Flatten(cl_results)

\* the workers that have read the global _client
ClientReaders == {b \in DOMAIN cl_client : cl_client[b] # "none"}

\* C32: the classification workers share no mutable state: no variable is
\* written by one worker and read or written by another; the oracle client
\* handle is not initialised by workers that run concurrently.
C32_NoSharedMutableState ==
  \A w \in client_writers : ClientReaders \cup client_writers = {w}

(* ------------------------------ C33 ----------------------------------- *)
\* C33: within one apply_labels_batch call every label lookup, create and
\* patch call is issued before the first bulk-modify call.
C33_ResolveBeforeModify ==
  lb_pc = "done" =>
    \A i, j \in DOMAIN lb_calls :
      (lb_calls[i].op = "batchModify" /\ lb_calls[j].op # "batchModify")
        => j < i

\* two labels are resolved, one created and one patched, and both get a
\* bulk-modify call
C33_Witness ==
  /\ lb_pc = "done"
  /\ \E i, j \in DOMAIN lb_calls :
       /\ lb_calls[i].op = "create" /\ lb_calls[j].op = "patch"
       /\ lb_calls[i].label # lb_calls[j].label
       /\ \E m, n \in DOMAIN lb_calls :
            /\ lb_calls[m].op = "batchModify"
            /\ lb_calls[n].op = "batchModify"
            /\ lb_calls[m].label = lb_calls[i].label
            /\ lb_calls[n].label = lb_calls[j].label

(* ------------------------------ C34 ----------------------------------- *)
\* the per-item results of one label, in order
ResultsFor(label_name) ==
  SelectSeq(lb_result.results, LAMBDA r : r.label = label_name)

\* the offset of the chunk that holds the j-th id of a label
ChunkStart(j) == ((j - 1) \div label_batch_size) * label_batch_size

Unresolvable(l) ==
  LET f == lb_env.faults[l]
  IN \/ f.list = "raises"
     \/ /\ \A p \in lb_env.prov : p.name # l
        /\ \/ f.create = "raises"
           \/ f.create = "color" /\ f.create2 = "raises"

\* C35: when a label cannot be resolved or created, every item destined
\* for it gets a failed result with a descriptive error, no bulk-modify
\* call is issued for that label, apply_labels_batch does not raise, and
\* the items of the other labels are still labeled.
C35_UnresolvedLabelFailsItsItems ==
  (lb_pc = "done" /\ lb_env.service) =>
    /\ ~lb_result.raised
    /\ \A l \in Range(LabelOrder(lb_classifications, {})) :
         LET email_ids == EmailIdsOf(lb_classifications, l)
             rs == ResultsFor(l)
         IN /\ Len(rs) = Len(email_ids)
            /\ IF Unresolvable(l)
               THEN /\ \A j \in DOMAIN rs :
                         /\ rs[j].email_id = email_ids[j]
                         /\ ~rs[j].success
                         /\ rs[j].error = "Label ID not found for " \o l
                    /\ \A c \in DOMAIN lb_calls :
                         lb_calls[c].op = "batchModify"
                           => lb_calls[c].label # l
               ELSE /\ \E c \in DOMAIN lb_calls :
                         /\ lb_calls[c].op = "batchModify"
                         /\ lb_calls[c].label = l
                    /\ \A j \in DOMAIN rs :
                         rs[j].success = (<<l, 0>> \notin lb_env.failing)

\* the first label can be neither found nor created, the second one is
\* created and its items are labeled
C35_Witness ==
  /\ lb_pc = "done" /\ lb_env.service
  /\ Len(lb_result.results) = 3
  /\ Unresolvable(lb_result.results[1].label)
  /\ ~lb_result.results[1].success
  /\ lb_result.results[2].label = lb_result.results[1].label
  /\ lb_result.results[3].label # lb_result.results[1].label
  /\ lb_result.results[3].success
  /\ \E c \in DOMAIN lb_calls :
       lb_calls[c].op = "create"
         /\ lb_calls[c].label = lb_result.results[3].label
  /\ lb_result.failed_count = 2 /\ lb_result.success_count = 1

(* ------------------------------ C36 ----------------------------------- *)
\* the provider's labels of one name
Named(prov, label_name) == {l \in prov : l.name = label_name}

\* how many create calls one call issued
Creates(h) == Cardinality({k \in DOMAIN h.calls : h.calls[k] = "create"})

ItemOf(id) ==
  CHOOSE i \in DOMAIN items :
    items[i].user_id = UserId /\ items[i].gmail_message_id = id

\* C38: every classified message is submitted to labeling under its
\* category when that is one of the six taxonomy keys and under UNKNOWN
\* otherwise; an item classified ERROR whose bulk-modify succeeded ends
\* the pass SUCCESS with category ERROR and no last_error.
C38_ErrorLabeledUnknown ==
  \A k \in DOMAIN engine_calls :
    (engine_calls[k].engine = "label" /\ ~engine_calls[k].raised) =>
      LET cs == engine_calls[k - 1].results
          rs == engine_calls[k].results
      IN /\ engine_calls[k - 1].engine = "classify"
         /\ Len(rs) = Len(cs)
         /\ \A j \in DOMAIN cs :
              \E n \in DOMAIN rs :
                /\ rs[n].email_id = cs[j].email_id
                /\ rs[n].label =
                     IF cs[j].category \in
                          {"IMPORTANT_ACTION", "FYI_READ_LATER", "MARKETING",
                           "AUTOMATED", "LOW_VALUE_NOISE", "UNKNOWN"}
                     THEN cs[j].category ELSE "UNKNOWN"
                /\ (k = Len(engine_calls) /\ pc \in {"retry", "complete"}
                      /\ cs[j].category = "ERROR" /\ rs[n].success)
                     => LET it == items[ItemOf(cs[j].email_id)]
                        IN /\ it.status = "SUCCESS"
                           /\ it.category = "ERROR"
                           /\ it.last_error = NoneVal

\* the messages of a call are classified ERROR, labeled under UNKNOWN
\* by a bulk-modify call that succeeds, and their items are SUCCESS
C38_Witness ==
  /\ pc = "retry"
  /\ Len(engine_calls) = 2
  /\ ~engine_calls[2].raised
  /\ Len(classifications) = MaxMsg
  /\ \A j \in DOMAIN classifications :
       classifications[j].category = "ERROR"
  /\ \A n \in DOMAIN engine_calls[2].results :
       engine_calls[2].results[n].success
  /\ \E n \in DOMAIN engine_calls[2].results :
       /\ engine_calls[2].results[n].label = "UNKNOWN"
       /\ items[ItemOf(engine_calls[2].results[n].email_id)].category
            = "ERROR"
       /\ items[ItemOf(engine_calls[2].results[n].email_id)].status
            = "SUCCESS"

(* ------------------------------ C40 ----------------------------------- *)
\* C40: after the first-pass reconciliation and after the retry
\* reconciliation every item of the pass that is SUCCESS has no last_error
\* and every item of the pass that is FAILED has a non-empty last_error.
C40_ErrorMatchesStatus ==
  pc \in {"retry", "complete"} =>
    \A i \in Range(items_to_process) :
      /\ items[i].status = "SUCCESS" => items[i].last_error = NoneVal
      /\ items[i].status = "FAILED" => Truthy(items[i].last_error)

\* after the retry pass one item is SUCCESS on its second attempt, with
\* the error of its first classification cleared, and one is FAILED
C40_Witness ==
  /\ pc = "complete"
  /\ Len(engine_calls) = 4
  /\ engine_calls[1].results[1].category = "ERROR"
  /\ \E i, j \in Range(retry_items) :
       /\ items[i].status = "SUCCESS" /\ items[i].attempt_count = 2
       /\ items[i].gmail_message_id = engine_calls[1].results[1].email_id
       /\ items[i].last_error = NoneVal
       /\ items[j].status = "FAILED" /\ items[j].attempt_count = 2
       /\ Truthy(items[j].last_error)

(* ------------------------------ C39 ----------------------------------- *)
\* the sum of the counts of a summary
RECURSIVE SumOver(_, _)
SumOver(f, S) ==
  IF S = {} THEN 0
  ELSE LET x == CHOOSE y \in S : TRUE IN f[x] + SumOver(f, S \ {x})

\* clean returned a rollup
RollupReturned == response.http = 200 /\ response.keys = RollupKeys

\* C39: in every rollup clean returns, labeling.success_count +
\* labeling.failed_count = labeling.total, labeling.total is the number of
\* distinct fetched message ids, and the summary counts sum to the number
\* of classifications of the rollup.
C39_RollupCountsAddUp ==
  RollupReturned =>
    /\ response.labeling.success_count + response.labeling.failed_count
         = response.labeling.total
    /\ response.labeling.total
         = Cardinality({response.emails[k].id : k \in DOMAIN response.emails}
                         \ {0})
    /\ SumOver(response.summary, DOMAIN response.summary)
         = Len(response.classifications)

(* ------------------------------ C37 ----------------------------------- *)
\* C37: when two clean calls of one user run side by side over overlapping
\* fetch results, there is at most one item per (user, message) in every
\* state, each message is claimed and labeled by at most one of the two
\* runs, and both runs are in a terminal state once both calls ended.
C37_ConcurrentCleanSafe ==
  /\ UniqueConstraint(items)
  /\ \A c1, c2 \in claimed : c1[2] = c2[2] => c1[1] = c2[1]
  /\ \A l1, l2 \in labeled : l1[2] = l2[2] => l1[1] = l2[1]
  /\ (handlers # <<>> /\ \A h \in Handlers : handlers[h].pc = "done")
       => \A h \in Handlers :
            runs[handlers[h].run_id].status \in {"COMPLETED", "FAILED"}

====
